---- MODULE Spec2Model ----
(***************************************************************************)
(* A model of the SageMaker client library.                                *)
(*                                                                         *)
(* SageMakerInference (src/README.md, lines 296-689): the constructor's    *)
(* defaults, getEffectiveConfig, executeWithRetry, recordMetrics,          *)
(* validateResponse and invokeEndpoint.                                    *)
(*                                                                         *)
(* JavaScript objects are functions from the names of their own            *)
(* properties to values, so that "absent" and "present with the value      *)
(* undefined" differ as they do for the spread operator.  Numbers are      *)
(* integers, with Undefined standing for the value undefined (and for the  *)
(* NaN it becomes in arithmetic); booleans and function-valued fields are  *)
(* strings ("true", "false", "undefined", or the name of the function).    *)
(* Time is not measured: a backoff timer records the delay it was armed     *)
(* with and fires at some later step, and the timeout timer of an attempt   *)
(* may fire at any step before the attempt's remote call settles.  A        *)
(* metrics callback may throw on any of its calls; a custom validator       *)
(* returns true or false.                                                   *)
(***************************************************************************)
EXTENDS Integers, Sequences, FiniteSets, TLC

VARIABLES
    ctorConfig,      \* the config argument the instance was constructed with
    config,          \* this.config, as the constructor leaves it
    options,         \* the options object of the invokeEndpoint call
    effectiveConfig, \* const effectiveConfig of invokeEndpoint / executeWithRetry
    pc,              \* where the call is: "idle" (not made yet), "race" (an
                     \* attempt's remote call races its timer), "sleep"
                     \* (backoff), "done" (settled); "merged" in SpecMerge
    retryCount,      \* parameter retryCount of the running executeWithRetry
    issued,          \* number of client.invokeEndpoint calls issued so far
    outstanding,     \* attempt indexes whose remote call has not settled yet
    attemptLog,      \* per attempt, what Promise.race settled with
    sleeps,          \* the delays (ms) of the backoff timers armed so far
    events,          \* the calls made to a metrics callback, in order
    validations,     \* the calls made to a custom validator, in order
    transformed,     \* what each call of transformInput returned, in order
    sent,            \* the payload of each client.invokeEndpoint call issued
    outcome          \* how the promise returned by invokeEndpoint settled

\* A batchInvokeEndpoint call (SpecBatch).
VARIABLES
    payloads,        \* the payloads argument: whether an array, and its length
    batchPc,         \* "idle", "window" (awaiting Promise.all), "done"
    windowStart,     \* the loop variable i of batchInvokeEndpoint
    windows,         \* per loop iteration, the payload indexes of its slice
    calls,           \* per payload index, the state of its invokeEndpoint call
    results,         \* const results of batchInvokeEndpoint
    batchOutcome     \* how the promise returned by batchInvokeEndpoint settled

\* A SageMakerTraining.train call (SpecTrain).
VARIABLES
    trainPc,         \* "idle", "source", "inputs", "create", "describe",
                     \* "sleep", "done"
    trainLog,        \* the remote calls made and the timers armed, in order
    lastStatus,      \* const status of monitorTrainingJob's last iteration
    trainOutcome,    \* how the promise returned by train settled
    trainJob         \* const trainingJobName of train, and the TrainingJobName
                     \* of the CreateTrainingJob command it has sent

\* Two BaseSageMakerDeployment.deploy calls on one service and model, and the
\* SageMaker account they act on (SpecDeploy).
VARIABLES
    deploys,         \* per call, its input, its constants and its position
    remote           \* the models, endpoint configs and endpoint that exist

\* Two train submissions and the job names they are given (SpecName).
VARIABLES
    submissions

batchVars == <<payloads, batchPc, windowStart, windows, calls, results, batchOutcome>>

trainVars == <<trainPc, trainLog, lastStatus, trainOutcome, trainJob>>

deployVars == <<deploys, remote>>

nameVars == <<submissions>>

inputVars == <<transformed, sent>>

invokeVars == <<pc, retryCount, issued, outstanding, attemptLog, sleeps, events,
                validations, outcome, inputVars>>

vars == <<ctorConfig, config, options, effectiveConfig, pc, retryCount, issued, outstanding,
          attemptLog, sleeps, events, validations, outcome, inputVars, batchVars,
          trainVars, deployVars, nameVars>>

\* What the steps of one component leave alone.
OutsideInvoke == <<batchVars, trainVars, deployVars, nameVars>>
OutsideBatch == <<effectiveConfig, invokeVars, trainVars, deployVars, nameVars>>
OutsideTrain == <<ctorConfig, config, options, effectiveConfig, invokeVars, batchVars,
                  deployVars, nameVars>>
OutsideDeploy == <<ctorConfig, config, options, effectiveConfig, invokeVars, batchVars,
                   trainVars, nameVars>>
OutsideNames == <<ctorConfig, config, options, effectiveConfig, invokeVars, batchVars,
                  trainVars, deployVars>>

----------------------------------------------------------------------------
(* Bounds of the model. *)

\* Largest maxAttempts a configuration sets explicitly.
MaxRetries == 2

\* Largest backoffMultiplier a configuration sets explicitly.
MaxMultiplier == 2

----------------------------------------------------------------------------
(* JavaScript values. *)

\* The value undefined in a numeric field.
Undefined == -1

\* An object with no own property; also what spreading undefined contributes.
EmptyObject == [k \in {} |-> 0]

\* { ...a, ...b }
Spread(a, b) ==
    [k \in (DOMAIN a) \cup (DOMAIN b) |-> IF k \in DOMAIN b THEN b[k] ELSE a[k]]

\* o.k for a numeric field
NumField(o, k) == IF k \in DOMAIN o THEN o[k] ELSE Undefined

\* o.k for a boolean or function-valued field
Field(o, k) == IF k \in DOMAIN o THEN o[k] ELSE "undefined"

\* ToBoolean of a boolean or function-valued field
Truthy(v) == v \notin {"false", "undefined"}

\* a < b on numbers; a comparison with undefined is false
LessThan(a, b) == a # Undefined /\ b # Undefined /\ a < b

RECURSIVE IntPow(_, _)
IntPow(b, e) == IF e = 0 THEN 1 ELSE b * IntPow(b, e - 1)

\* Math.pow(b, e) for an integer e >= 0: pow(x, 0) is 1 for every x, undefined
\* included; pow(undefined, e) is NaN otherwise
MathPow(b, e) ==
    IF e = 0 THEN 1 ELSE IF b = Undefined THEN Undefined ELSE IntPow(b, e)

----------------------------------------------------------------------------
(* The constructor and getEffectiveConfig. *)

DefaultMaxAttempts == 3
DefaultTimeoutMs == 30000
DefaultBackoffMultiplier == 2
DefaultMaxBatchSize == 10
DefaultConcurrency == 3

RetryDefaults ==
    [k \in {"maxAttempts", "timeoutMs", "backoffMultiplier"} |->
        CASE k = "maxAttempts" -> DefaultMaxAttempts
          [] k = "timeoutMs" -> DefaultTimeoutMs
          [] k = "backoffMultiplier" -> DefaultBackoffMultiplier]

EnabledDefault == [k \in {"enabled"} |-> "true"]

\* Batch defaults with batch processing off
BatchDefaultsDisabled ==
    [k \in {"enabled", "maxBatchSize", "concurrency"} |->
        CASE k = "enabled" -> "false"
          [] k = "maxBatchSize" -> DefaultMaxBatchSize
          [] k = "concurrency" -> DefaultConcurrency]

BatchDefaults ==
    [k \in {"enabled", "maxBatchSize", "concurrency"} |->
        CASE k = "enabled" -> "true"
          [] k = "maxBatchSize" -> DefaultMaxBatchSize
          [] k = "concurrency" -> DefaultConcurrency]

\* new SageMakerInference(client, cfg, logger): this.config
Constructor(cfg) ==
    [retry      |-> Spread(RetryDefaults, cfg.retry),
     monitoring |-> Spread(EnabledDefault, cfg.monitoring),
     validation |-> Spread(EnabledDefault, cfg.validation),
     batch      |-> Spread(BatchDefaults, cfg.batch)]

\* { ...callOptions?.retry, ...this.config.retry }: the spreads in the wrong
\* order, so that the instance configuration wins
getEffectiveConfigInstanceWins(thisConfig, callOptions) ==
    [retry      |-> Spread(callOptions.retry, thisConfig.retry),
     validation |-> Spread(callOptions.validation, thisConfig.validation),
     monitoring |-> Spread(callOptions.monitoring, thisConfig.monitoring)]

\* this.getEffectiveConfig(callOptions)
getEffectiveConfig(thisConfig, callOptions) ==
    [retry      |-> Spread(thisConfig.retry, callOptions.retry),
     validation |-> Spread(thisConfig.validation, callOptions.validation),
     monitoring |-> Spread(thisConfig.monitoring, callOptions.monitoring)]

----------------------------------------------------------------------------
(* Values that travel through a call. *)

\* Parsed response bodies: an object, an empty array, null.
Bodies == {<<"object">>, <<"emptyArray">>, <<"null">>}

\* Errors client.invokeEndpoint (or reading and parsing its body) rejects with.
RemoteErrors == {"ServiceError", "NetworkError"}

TimeoutError == "Timeout"
CallbackError == "metricsCallback failed"
TransformInputError == "transformInput failed"
TransformOutputError == "transformOutput failed"
CustomValidationError == "Custom validation failed for response"
InvalidResponseError == "Invalid response received from endpoint"

\* The payload argument of a call
Payload == <<"payload">>

\* transformOutput(r) of a transform that returns: the default (r) => r, or one
\* that wraps its argument
ApplyTransform(t, r) == IF t = "wrap" THEN <<"wrapped">> \o r ELSE r

\* { data, inferenceId, targetModel, targetVariant, explanation }
AssembledResponse(data) == <<"response">> \o data

\* !response
IsFalsy(r) == r = <<"null">>

\* Array.isArray(response) && response.length === 0
IsEmptyArray(r) == r = <<"emptyArray">>

Pending == [kind |-> "pending", value |-> <<>>, error |-> ""]
Resolved(v) == [kind |-> "resolved", value |-> v, error |-> ""]
Rejected(e) == [kind |-> "rejected", value |-> <<>>, error |-> e]

----------------------------------------------------------------------------
(* recordMetrics, validateResponse and the backoff delay. *)

\* this.config.monitoring?.metricsCallback || monitoringConfig.metricsCallback:
\* the instance-level callback tried first
MetricsCallbackOfInstanceFirst(monitoringConfig) ==
    IF Truthy(Field(monitoringConfig, "enabled"))
    THEN IF Truthy(Field(ctorConfig.monitoring, "metricsCallback"))
         THEN Field(ctorConfig.monitoring, "metricsCallback")
         ELSE Field(monitoringConfig, "metricsCallback")
    ELSE "undefined"

\* The callback recordMetrics calls for a monitoring configuration, or
\* "undefined" when it calls none.
MetricsCallbackOf(monitoringConfig) ==
    IF Truthy(Field(monitoringConfig, "enabled"))
    THEN IF Truthy(Field(monitoringConfig, "metricsCallback"))
         THEN Field(monitoringConfig, "metricsCallback")
         ELSE Field(config.monitoring, "metricsCallback")
    ELSE "undefined"

\* The events after recordMetrics(metrics, monitoringConfig), given those before
recordMetrics(evs, success, error, threw, monitoringConfig) ==
    LET callback == MetricsCallbackOf(monitoringConfig) IN
    IF Truthy(callback)
    THEN Append(evs, [success |-> success, error |-> error,
                      by |-> callback, threw |-> threw])
    ELSE evs

\* The custom validator validateResponse calls, or "undefined" when it calls none
ValidatorOf(validationConfig) ==
    IF Truthy(Field(validationConfig, "enabled"))
    THEN Field(validationConfig, "customValidator")
    ELSE "undefined"

\* The message of the error validateResponse throws, or "" when it returns;
\* accepts is what the custom validator returns when one is called
validateResponse(response, validationConfig, accepts) ==
    IF ~Truthy(Field(validationConfig, "enabled")) THEN ""
    ELSE IF Truthy(Field(validationConfig, "customValidator"))
         THEN (IF accepts THEN "" ELSE CustomValidationError)
         ELSE IF IsFalsy(response) \/ IsEmptyArray(response)
              THEN InvalidResponseError
              ELSE ""

\* Math.pow(backoffMultiplier, retryCount + 1) * 1000: the exponent counts the
\* attempt, not the retry
BackoffTimeFromAttempt(retryConfig, count) ==
    LET p == MathPow(NumField(retryConfig, "backoffMultiplier"), count + 1) IN
    IF p = Undefined THEN Undefined ELSE p * 1000

\* const backoffTime = Math.pow(backoffMultiplier, retryCount) * 1000
BackoffTime(retryConfig, count) ==
    LET p == MathPow(NumField(retryConfig, "backoffMultiplier"), count) IN
    IF p = Undefined THEN Undefined ELSE p * 1000

\* retryCount <= maxAttempts: one retry too many
MayRetryInclusive(retryConfig, count) ==
    count <= NumField(retryConfig, "maxAttempts")

\* retryCount < effectiveConfig.retry.maxAttempts
MayRetry(retryConfig, count) ==
    LessThan(count, NumField(retryConfig, "maxAttempts"))

----------------------------------------------------------------------------
(* The components that take no step in a specification stay as they start. *)

NotAnArray == [isArray |-> FALSE, length |-> 0]
NoStatus == "undefined"

BatchIdle ==
    /\ payloads = NotAnArray
    /\ batchPc = "idle"
    /\ windowStart = 0
    /\ windows = <<>>
    /\ calls = <<>>
    /\ results = <<>>
    /\ batchOutcome = Pending

\* No training instance: no configuration, no job name
NoJob ==
    [service |-> "", model |-> "", framework |-> "", name |-> <<>>,
     submitted |-> <<>>, returned |-> <<>>, remote |-> NoStatus]

TrainIdle ==
    /\ trainPc = "idle"
    /\ trainLog = <<>>
    /\ lastStatus = NoStatus
    /\ trainOutcome = Pending
    /\ trainJob = NoJob

DeployIdle ==
    /\ deploys = <<>>
    /\ remote = <<>>

NamesIdle == submissions = <<>>

----------------------------------------------------------------------------
(* The configurations and options a call is made with. *)

\* An object with the one property k, of value v
Only(k, v) == [f \in {k} |-> v]

NoConfig ==
    [retry |-> EmptyObject, validation |-> EmptyObject, monitoring |-> EmptyObject]

CtorRetryInputs == {EmptyObject, Only("maxAttempts", 1)}

CallRetryInputs ==
    {EmptyObject}
        \cup {Only("maxAttempts", n) : n \in 0..MaxRetries}
        \cup {Only("backoffMultiplier", m) : m \in 0..MaxMultiplier}

CtorMonitoringInputs ==
    {EmptyObject, Only("metricsCallback", "instanceCallback")}

CallMonitoringInputs ==
    {EmptyObject, Only("enabled", "false"), Only("metricsCallback", "callCallback")}

CtorValidationInputs ==
    {EmptyObject, Only("customValidator", "instanceValidator")}

CallValidationInputs ==
    {EmptyObject, Only("enabled", "false"), Only("customValidator", "callValidator")}

CtorConfigs ==
    [retry : CtorRetryInputs, monitoring : CtorMonitoringInputs,
     validation : CtorValidationInputs, batch : {EmptyObject}]

CallOptions ==
    [retry : CallRetryInputs, monitoring : CallMonitoringInputs,
     validation : CallValidationInputs,
     transformInput : {"identity", "wrap", "throws"},
     transformOutput : {"identity", "wrap", "throws"}]

Init ==
    /\ ctorConfig \in CtorConfigs
    /\ config = Constructor(ctorConfig)
    /\ options \in CallOptions
    /\ effectiveConfig = NoConfig
    /\ pc = "idle"
    /\ retryCount = 0
    /\ issued = 0
    /\ outstanding = {}
    /\ attemptLog = <<>>
    /\ sleeps = <<>>
    /\ events = <<>>
    /\ validations = <<>>
    /\ transformed = <<>>
    /\ sent = <<>>
    /\ outcome = Pending
    /\ BatchIdle
    /\ TrainIdle
    /\ DeployIdle
    /\ NamesIdle

----------------------------------------------------------------------------
(* executeWithRetry and invokeEndpoint. *)

\* What the rest of invokeEndpoint does once executeWithRetry has returned
\* response: validate, transform the output, return; any throw lands in its
\* catch block, which rethrows.  A record of the variables it sets.
AfterRetry(response, accepts) ==
    LET failure == validateResponse(response, effectiveConfig.validation, accepts)
        validator == ValidatorOf(effectiveConfig.validation)
    IN [validations |->
            IF Truthy(validator)
            THEN Append(validations, [by |-> validator, accepted |-> accepts])
            ELSE validations,
        outcome |->
            IF failure # ""
            THEN Rejected(failure)
            ELSE Resolved(ApplyTransform(options.transformOutput, response))]

\* A catch block that rethrows a timeout without retrying it
CatchBlockTimeoutFatal(err, evs, threw) ==
    IF MayRetry(effectiveConfig.retry, retryCount) /\ err # TimeoutError
    THEN /\ sleeps' = Append(sleeps, BackoffTime(effectiveConfig.retry, retryCount))
         /\ pc' = "sleep"
         /\ events' = evs
         /\ UNCHANGED <<validations, outcome>>
    ELSE /\ events' = recordMetrics(evs, FALSE, err, threw, effectiveConfig.monitoring)
         /\ outcome' =
                IF threw /\ Truthy(MetricsCallbackOf(effectiveConfig.monitoring))
                THEN Rejected(CallbackError)
                ELSE Rejected(err)
         /\ pc' = "done"
         /\ UNCHANGED <<sleeps, validations>>

\* The catch block of executeWithRetry for the error err, the callback having
\* been called as evs records: arm the backoff timer, or record the failure
\* and throw (threw: whether the metrics callback throws)
CatchBlock(err, evs, threw) ==
    IF MayRetry(effectiveConfig.retry, retryCount)
    THEN /\ sleeps' = Append(sleeps, BackoffTime(effectiveConfig.retry, retryCount))
         /\ pc' = "sleep"
         /\ events' = evs
         /\ UNCHANGED <<validations, outcome>>
    ELSE /\ events' = recordMetrics(evs, FALSE, err, threw, effectiveConfig.monitoring)
         /\ outcome' =
                IF threw /\ Truthy(MetricsCallbackOf(effectiveConfig.monitoring))
                THEN Rejected(CallbackError)
                ELSE Rejected(err)
         /\ pc' = "done"
         /\ UNCHANGED <<sleeps, validations>>

\* A try block that validates the response itself, so that a validation error
\* lands in the catch block and is retried like a remote error
TryBlockValidating(result, threwOnSuccess, threwOnFailure, accepts) ==
    LET after == AfterRetry(result, accepts) IN
    IF after.outcome.kind = "rejected"
    THEN /\ validations' = after.validations
         /\ IF MayRetry(effectiveConfig.retry, retryCount)
            THEN /\ sleeps' = Append(sleeps, BackoffTime(effectiveConfig.retry, retryCount))
                 /\ pc' = "sleep"
                 /\ UNCHANGED <<events, outcome>>
            ELSE /\ events' = recordMetrics(events, FALSE, after.outcome.error, FALSE,
                                            effectiveConfig.monitoring)
                 /\ outcome' = after.outcome
                 /\ pc' = "done"
                 /\ UNCHANGED sleeps
    ELSE /\ events' = recordMetrics(events, TRUE, "", FALSE, effectiveConfig.monitoring)
         /\ validations' = after.validations
         /\ outcome' = after.outcome
         /\ pc' = "done"
         /\ UNCHANGED sleeps

\* The try block of executeWithRetry once Promise.race has resolved with result:
\* record the success and return to invokeEndpoint; a throw of the metrics
\* callback lands in the catch block
TryBlock(result, threwOnSuccess, threwOnFailure, accepts) ==
    LET evs == recordMetrics(events, TRUE, "", threwOnSuccess, effectiveConfig.monitoring)
        after == AfterRetry(result, accepts)
    IN IF threwOnSuccess /\ Truthy(MetricsCallbackOf(effectiveConfig.monitoring))
       THEN CatchBlock(CallbackError, evs, threwOnFailure)
       ELSE /\ events' = evs
            /\ validations' = after.validations
            /\ outcome' = after.outcome
            /\ pc' = "done"
            /\ UNCHANGED sleeps

\* What a transform that throws leaves in the place of a value
Thrown == <<"thrown">>

\* An operation that sends the payload argument as it was given
PayloadSentUntransformed(values, payload) == payload

\* Body: Buffer.from(jsonPayload) of the operation passed to executeWithRetry:
\* const jsonPayload is JSON.stringify(transformedPayload), computed once
PayloadSent(values, payload) == values[Len(values)]

\* invokeEndpoint(endpointName, payload, options), up to its first await: merge
\* the configuration, transform the input, enter executeWithRetry, which
\* issues the remote call and arms the timeout timer
Invoke ==
    /\ pc = "idle"
    /\ effectiveConfig' = getEffectiveConfig(config, options)
    /\ IF options.transformInput = "throws"
       THEN /\ outcome' = Rejected(TransformInputError)
            /\ pc' = "done"
            /\ transformed' = Append(transformed, Thrown)
            /\ UNCHANGED <<issued, outstanding, sent>>
       ELSE /\ pc' = "race"
            /\ issued' = issued + 1
            /\ outstanding' = outstanding \cup {retryCount}
            /\ transformed' = Append(transformed, ApplyTransform(options.transformInput, Payload))
            /\ sent' = Append(sent, PayloadSent(transformed', Payload))
            /\ UNCHANGED outcome
    /\ UNCHANGED <<ctorConfig, config, options, retryCount, attemptLog, sleeps,
                   events, validations>>
    /\ UNCHANGED OutsideInvoke

\* The remote call of the running attempt resolves with a body before the
\* timer fires
RemoteResolves ==
    /\ pc = "race"
    /\ \E body \in Bodies, threwOnSuccess, threwOnFailure, accepts \in BOOLEAN :
        \* choices that are not consulted take one value
        /\ threwOnSuccess => Truthy(MetricsCallbackOf(effectiveConfig.monitoring))
        /\ threwOnFailure => threwOnSuccess /\ ~MayRetry(effectiveConfig.retry, retryCount)
        /\ ~accepts => /\ Truthy(ValidatorOf(effectiveConfig.validation))
                       /\ ~threwOnSuccess
                       /\ options.transformOutput # "throws"
        /\ outstanding' = outstanding \ {retryCount}
        /\ IF options.transformOutput = "throws"
           THEN /\ attemptLog' = Append(attemptLog, TransformOutputError)
                /\ CatchBlock(TransformOutputError, events, threwOnSuccess)
           ELSE /\ attemptLog' = Append(attemptLog, "ok")
                /\ TryBlock(AssembledResponse(ApplyTransform(options.transformOutput, body)),
                            threwOnSuccess, threwOnFailure, accepts)
    /\ UNCHANGED <<ctorConfig, config, options, effectiveConfig, retryCount, issued>>
    /\ UNCHANGED inputVars
    /\ UNCHANGED OutsideInvoke

\* The remote call of the running attempt rejects before the timer fires
RemoteRejects ==
    /\ pc = "race"
    /\ \E err \in RemoteErrors, threw \in BOOLEAN :
        /\ threw => /\ ~MayRetry(effectiveConfig.retry, retryCount)
                    /\ Truthy(MetricsCallbackOf(effectiveConfig.monitoring))
        /\ outstanding' = outstanding \ {retryCount}
        /\ attemptLog' = Append(attemptLog, err)
        /\ CatchBlock(err, events, threw)
    /\ UNCHANGED <<ctorConfig, config, options, effectiveConfig, retryCount, issued>>
    /\ UNCHANGED inputVars
    /\ UNCHANGED OutsideInvoke

\* A timeout timer that is armed for the first attempt only
TimerFiresFirstAttemptOnly ==
    /\ pc = "race"
    /\ retryCount = 0
    /\ \E threw \in BOOLEAN :
        /\ threw => /\ ~MayRetry(effectiveConfig.retry, retryCount)
                    /\ Truthy(MetricsCallbackOf(effectiveConfig.monitoring))
        /\ attemptLog' = Append(attemptLog, TimeoutError)
        /\ CatchBlock(TimeoutError, events, threw)
    /\ UNCHANGED <<ctorConfig, config, options, effectiveConfig, retryCount, issued,
                   outstanding>>
    /\ UNCHANGED inputVars
    /\ UNCHANGED OutsideInvoke

\* The timeout timer fires before the remote call settles: the race rejects
\* with Error("Timeout"); nothing cancels the remote call
TimerFires ==
    /\ pc = "race"
    /\ \E threw \in BOOLEAN :
        /\ threw => /\ ~MayRetry(effectiveConfig.retry, retryCount)
                    /\ Truthy(MetricsCallbackOf(effectiveConfig.monitoring))
        /\ attemptLog' = Append(attemptLog, TimeoutError)
        /\ CatchBlock(TimeoutError, events, threw)
    /\ UNCHANGED <<ctorConfig, config, options, effectiveConfig, retryCount, issued,
                   outstanding>>
    /\ UNCHANGED inputVars
    /\ UNCHANGED OutsideInvoke

\* The backoff timer fires: executeWithRetry runs again with retryCount + 1,
\* issues the remote call and arms the timeout timer
BackoffElapsed ==
    /\ pc = "sleep"
    /\ retryCount' = retryCount + 1
    /\ issued' = issued + 1
    /\ outstanding' = outstanding \cup {retryCount + 1}
    /\ pc' = "race"
    /\ sent' = Append(sent, PayloadSent(transformed, Payload))
    /\ UNCHANGED <<ctorConfig, config, options, effectiveConfig, attemptLog, sleeps,
                   events, validations, outcome, transformed>>
    /\ UNCHANGED OutsideInvoke

\* A remote call whose attempt has already ended by timeout settles; its
\* result is dropped
AbandonedCallSettles ==
    /\ \E k \in outstanding :
        /\ ~(pc = "race" /\ k = retryCount)
        /\ outstanding' = outstanding \ {k}
    /\ UNCHANGED <<ctorConfig, config, options, effectiveConfig, pc, retryCount, issued,
                   attemptLog, sleeps, events, validations, outcome>>
    /\ UNCHANGED inputVars
    /\ UNCHANGED OutsideInvoke

Next ==
    \/ Invoke
    \/ RemoteResolves
    \/ RemoteRejects
    \/ TimerFires
    \/ BackoffElapsed
    \/ AbandonedCallSettles

Spec == Init /\ [][Next]_vars

\* One call under the scheduling of the event loop: a timer that has been
\* armed (setTimeout) fires unless what awaits it has moved on; the remote
\* service owes nothing, it may never respond.
LiveCallOptions ==
    [retry : CallRetryInputs,
     monitoring : {EmptyObject, Only("metricsCallback", "callCallback")},
     validation : {EmptyObject},
     transformInput : {"identity"},
     transformOutput : {"identity", "throws"}]

InitLive ==
    /\ Init
    /\ ctorConfig.monitoring = EmptyObject
    /\ ctorConfig.validation = EmptyObject
    /\ options \in LiveCallOptions

Fairness == WF_vars(TimerFires) /\ WF_vars(BackoffElapsed)

SpecLive == InitLive /\ [][Next]_vars /\ Fairness

----------------------------------------------------------------------------
(* The configuration merge on its own: getEffectiveConfig applied to every  *)
(* pair of a constructor argument and a call-options object drawn from the  *)
(* sets below.                                                              *)

\* The objects whose properties are a subset of keys, with values in values
Objects(keys, values) == UNION {[d -> values] : d \in SUBSET keys}

RetryKeys == {"maxAttempts", "timeoutMs", "backoffMultiplier"}

MergeCtorConfigs ==
    [retry : Objects(RetryKeys, {1, MaxRetries + 1}),
     monitoring : {Spread(e, c) : e \in Objects({"enabled"}, {"true", "false"}),
                                  c \in {EmptyObject,
                                         Only("metricsCallback", "instanceCallback")}},
     validation : {EmptyObject, Only("customValidator", "instanceValidator")},
     batch : {EmptyObject}]

MergeCallOptions ==
    [retry : Objects(RetryKeys, {0, MaxRetries, Undefined}),
     monitoring : {Spread(e, c) : e \in Objects({"enabled"}, {"true", "false"}),
                                  c \in {EmptyObject,
                                         Only("metricsCallback", "callCallback")}},
     validation : {EmptyObject, Only("enabled", "false")},
     transformInput : {"identity"},
     transformOutput : {"identity"}]

InitMerge ==
    /\ ctorConfig \in MergeCtorConfigs
    /\ config = Constructor(ctorConfig)
    /\ options \in MergeCallOptions
    /\ effectiveConfig = NoConfig
    /\ pc = "idle"
    /\ retryCount = 0
    /\ issued = 0
    /\ outstanding = {}
    /\ attemptLog = <<>>
    /\ sleeps = <<>>
    /\ events = <<>>
    /\ validations = <<>>
    /\ transformed = <<>>
    /\ sent = <<>>
    /\ outcome = Pending
    /\ BatchIdle
    /\ TrainIdle
    /\ DeployIdle
    /\ NamesIdle

\* const effectiveConfig = this.getEffectiveConfig(options)
Merge ==
    /\ pc = "idle"
    /\ effectiveConfig' = getEffectiveConfig(config, options)
    /\ pc' = "merged"
    /\ UNCHANGED <<ctorConfig, config, options, retryCount, issued, outstanding,
                   attemptLog, sleeps, events, validations, outcome>>
    /\ UNCHANGED inputVars
    /\ UNCHANGED OutsideInvoke

NextMerge == Merge

SpecMerge == InitMerge /\ [][NextMerge]_vars

----------------------------------------------------------------------------
(* batchInvokeEndpoint.  Each payload of a window gets its own invokeEndpoint *)
(* call, with the options of the batch call; the calls of a window run        *)
(* concurrently, each through the retry loop of executeWithRetry.             *)

\* Largest payloads array.
MaxPayloads == 3

\* The loop iterations followed when the window size is 0 and the loop of
\* batchInvokeEndpoint never advances.
MaxWindows == 3

NotArrayError == "Payloads must be an array"
BatchDisabledError == "Batch processing is not enabled"

\* An invokeEndpoint call of the batch that has not been made
NewCall ==
    [pc |-> "unstarted", retryCount |-> 0, issued |-> 0, outstanding |-> {},
     events |-> <<>>, outcome |-> Pending]

\* The effective configuration of every invokeEndpoint call of the batch
BatchEffective == getEffectiveConfig(config, options)

\* The window is one batch: concurrency is left out of the product
WindowSizeOneBatch == NumField(config.batch, "maxBatchSize")

\* const batchSize * concurrency, with concurrency = batchConfig.concurrency || 1
WindowSize ==
    LET batchSize == NumField(config.batch, "maxBatchSize")
        configured == NumField(config.batch, "concurrency")
        concurrency == IF configured \in {0, Undefined} THEN 1 ELSE configured
    IN IF batchSize = Undefined THEN Undefined ELSE batchSize * concurrency

\* a + b on numbers; NaN when either is undefined
Plus(a, b) == IF a = Undefined \/ b = Undefined THEN Undefined ELSE a + b

\* The indexes (from 1) of payloads.slice(i, i + batchSize * concurrency)
Slice(i) ==
    IF WindowSize = Undefined THEN {}
    ELSE {k \in 1..payloads.length : i < k /\ k <= i + WindowSize}

\* The indexes of the slice of the running loop iteration
CurrentWindow == IF batchPc = "window" THEN windows[Len(windows)] ELSE {}

\* invokeEndpoint up to its first await, for one call of the batch
CallStart(c) ==
    IF options.transformInput = "throws"
    THEN [c EXCEPT !.pc = "done", !.outcome = Rejected(TransformInputError)]
    ELSE [c EXCEPT !.pc = "race", !.issued = 1, !.outstanding = {0}]

\* The catch block of executeWithRetry, for one call of the batch
CallCatch(c, err, evs, threw) ==
    IF MayRetry(BatchEffective.retry, c.retryCount)
    THEN [c EXCEPT !.pc = "sleep", !.events = evs]
    ELSE [c EXCEPT
            !.pc = "done",
            !.events = recordMetrics(evs, FALSE, err, threw, BatchEffective.monitoring),
            !.outcome =
                IF threw /\ Truthy(MetricsCallbackOf(BatchEffective.monitoring))
                THEN Rejected(CallbackError)
                ELSE Rejected(err)]

\* The try block of executeWithRetry after the race, and the rest of
\* invokeEndpoint, for one call of the batch
CallTry(c, result, threwOnSuccess, threwOnFailure, accepts) ==
    LET evs == recordMetrics(c.events, TRUE, "", threwOnSuccess,
                             BatchEffective.monitoring)
        failure == validateResponse(result, BatchEffective.validation, accepts)
    IN IF threwOnSuccess /\ Truthy(MetricsCallbackOf(BatchEffective.monitoring))
       THEN CallCatch(c, CallbackError, evs, threwOnFailure)
       ELSE [c EXCEPT
               !.pc = "done",
               !.events = evs,
               !.outcome =
                   IF failure # ""
                   THEN Rejected(failure)
                   ELSE Resolved(ApplyTransform(options.transformOutput, result))]

\* The batch call as a record, for the operators below
BatchState ==
    [pc |-> batchPc, i |-> windowStart, windows |-> windows, calls |-> calls,
     results |-> results, outcome |-> batchOutcome]

\* The for loop of batchInvokeEndpoint from its test on: leave the loop and
\* return results, or slice the next window, start its invokeEndpoint calls
\* and await Promise.all; calls that reject before their first await reject it
Loop(b) ==
    IF LessThan(b.i, payloads.length)
    THEN LET slice == Slice(b.i)
             started == [k \in DOMAIN b.calls |->
                            IF k \in slice THEN CallStart(b.calls[k]) ELSE b.calls[k]]
             failed == {k \in slice : started[k].outcome.kind = "rejected"}
         IN IF failed # {}
            THEN [b EXCEPT
                    !.pc = "done",
                    !.windows = Append(b.windows, slice),
                    !.calls = started,
                    !.outcome = Rejected(started[CHOOSE k \in failed :
                                    \A j \in failed : k <= j].outcome.error)]
            ELSE [b EXCEPT
                    !.pc = "window",
                    !.windows = Append(b.windows, slice),
                    !.calls = started]
    ELSE [b EXCEPT !.pc = "done", !.outcome = Resolved(b.results)]

\* The values of the calls of a window, in the order of their payloads
RECURSIVE WindowResults(_, _)
WindowResults(cs, window) ==
    IF window = {} THEN <<>>
    ELSE LET last == CHOOSE k \in window : \A j \in window : j <= k
         IN Append(WindowResults(cs, window \ {last}), cs[last].outcome.value)

\* Promise.all of the running window resolves: push its results, advance i
\* and go round the loop
WindowResolves(b) ==
    Loop([b EXCEPT
            !.results = b.results \o WindowResults(b.calls, b.windows[Len(b.windows)]),
            !.i = Plus(b.i, WindowSize)])

\* Promise.allSettled in place of Promise.all: a rejection of a call of the
\* window is not propagated
ReactAwaitingAll(k, c) ==
    LET b == [BatchState EXCEPT !.calls[k] = c] IN
    IF batchPc # "window" \/ k \notin CurrentWindow \/ c.pc # "done"
    THEN b
    ELSE IF \A j \in CurrentWindow : b.calls[j].outcome.kind = "resolved"
         THEN WindowResolves(b)
         ELSE b

\* What the batch does when its call k has become c: Promise.all rejects with
\* the first rejection of the running window (the catch block rethrows it), and
\* resolves once every call of the window has resolved
React(k, c) ==
    LET b == [BatchState EXCEPT !.calls[k] = c] IN
    IF batchPc # "window" \/ k \notin CurrentWindow \/ c.pc # "done"
    THEN b
    ELSE IF c.outcome.kind = "rejected"
         THEN [b EXCEPT !.pc = "done", !.outcome = Rejected(c.outcome.error)]
         ELSE IF \A j \in CurrentWindow : b.calls[j].outcome.kind = "resolved"
              THEN WindowResolves(b)
              ELSE b

\* The variables of the batch take the values of the record b
Becomes(b) ==
    /\ batchPc' = b.pc
    /\ windowStart' = b.i
    /\ windows' = b.windows
    /\ calls' = b.calls
    /\ results' = b.results
    /\ batchOutcome' = b.outcome

BatchFrame == UNCHANGED <<ctorConfig, config, options, payloads, OutsideBatch>>

\* The checks of batchInvokeEndpoint in another order: batch.enabled is tested
\* before the length of the array
BatchStartEnabledFirst(b) ==
    IF ~payloads.isArray
    THEN [b EXCEPT !.pc = "done", !.outcome = Rejected(NotArrayError)]
    ELSE IF ~Truthy(Field(config.batch, "enabled"))
    THEN [b EXCEPT !.pc = "done", !.outcome = Rejected(BatchDisabledError)]
    ELSE IF payloads.length = 0
    THEN [b EXCEPT !.pc = "done", !.outcome = Resolved(<<>>)]
    ELSE Loop(b)

\* batchInvokeEndpoint without its test of batch.enabled
BatchStartIgnoringEnabled(b) ==
    IF ~payloads.isArray
    THEN [b EXCEPT !.pc = "done", !.outcome = Rejected(NotArrayError)]
    ELSE IF payloads.length = 0
    THEN [b EXCEPT !.pc = "done", !.outcome = Resolved(<<>>)]
    ELSE Loop(b)

\* batchInvokeEndpoint from its entry to its first await (or its return)
BatchStart(b) ==
    IF ~payloads.isArray
    THEN [b EXCEPT !.pc = "done", !.outcome = Rejected(NotArrayError)]
    ELSE IF payloads.length = 0
    THEN [b EXCEPT !.pc = "done", !.outcome = Resolved(<<>>)]
    ELSE IF ~Truthy(Field(config.batch, "enabled"))
    THEN [b EXCEPT !.pc = "done", !.outcome = Rejected(BatchDisabledError)]
    ELSE Loop(b)

\* batchInvokeEndpoint(endpointName, payloads, options) is called
BatchInvoke ==
    /\ batchPc = "idle"
    /\ Becomes(BatchStart(BatchState))
    /\ BatchFrame

\* Promise.all of a window with no call resolves
EmptyWindowResolves ==
    /\ batchPc = "window"
    /\ CurrentWindow = {}
    /\ Len(windows) < MaxWindows
    /\ Becomes(WindowResolves(BatchState))
    /\ BatchFrame

\* The body the endpoint answers the payload of call k with: it names the payload
BodyFor(k) == <<"object", ToString(k)>>

\* The error a remote call of the batch rejects with
BatchRemoteErrors == RemoteErrors

\* The remote call of the running attempt of call k resolves before its timer;
\* the metrics callback and the validator of a batch return normally
CallRemoteResolves ==
    /\ \E k \in DOMAIN calls :
        /\ calls[k].pc = "race"
        /\ LET c == [calls[k] EXCEPT
                        !.outstanding = calls[k].outstanding \ {calls[k].retryCount}]
           IN IF options.transformOutput = "throws"
              THEN Becomes(React(k, CallCatch(c, TransformOutputError, c.events, FALSE)))
              ELSE Becomes(React(k, CallTry(c,
                      AssembledResponse(ApplyTransform(options.transformOutput, BodyFor(k))),
                      FALSE, FALSE, TRUE)))
    /\ BatchFrame

\* The remote call of the running attempt of call k rejects before its timer
CallRemoteRejects ==
    /\ \E k \in DOMAIN calls, err \in BatchRemoteErrors :
        /\ calls[k].pc = "race"
        /\ LET c == [calls[k] EXCEPT
                        !.outstanding = calls[k].outstanding \ {calls[k].retryCount}]
           IN Becomes(React(k, CallCatch(c, err, c.events, FALSE)))
    /\ BatchFrame

\* The timeout timer of the running attempt of call k fires first
CallTimerFires ==
    /\ \E k \in DOMAIN calls :
        /\ calls[k].pc = "race"
        /\ Becomes(React(k, CallCatch(calls[k], TimeoutError, calls[k].events, FALSE)))
    /\ BatchFrame

\* The backoff timer of call k fires: its next attempt is issued
CallBackoffElapsed ==
    /\ \E k \in DOMAIN calls :
        /\ calls[k].pc = "sleep"
        /\ Becomes(React(k, [calls[k] EXCEPT
                                !.pc = "race",
                                !.retryCount = calls[k].retryCount + 1,
                                !.issued = calls[k].issued + 1,
                                !.outstanding =
                                    calls[k].outstanding \cup {calls[k].retryCount + 1}]))
    /\ BatchFrame

\* A remote call of call k whose attempt ended by timeout settles
CallAbandonedSettles ==
    /\ \E k \in DOMAIN calls : \E a \in calls[k].outstanding :
        /\ ~(calls[k].pc = "race" /\ a = calls[k].retryCount)
        /\ Becomes(React(k, [calls[k] EXCEPT
                                !.outstanding = calls[k].outstanding \ {a}]))
    /\ BatchFrame

BatchConfigInputs ==
    {EmptyObject, Only("enabled", "false"), Only("enabled", "undefined")}
    \cup {Spread(Only("enabled", "true"), Spread(Only("maxBatchSize", m), c)) :
            m \in {0, 1, 2, Undefined},
            c \in {Only("concurrency", 0), Only("concurrency", 1),
                   Only("concurrency", 2)}}

BatchCtorConfigs ==
    [retry : {Only("maxAttempts", 0), Only("maxAttempts", 1)},
     monitoring : {Only("metricsCallback", "instanceCallback")},
     validation : {EmptyObject},
     batch : BatchConfigInputs]

BatchCallOptions ==
    [retry : {EmptyObject},
     monitoring : {EmptyObject},
     validation : {EmptyObject},
     transformInput : {"identity", "throws"},
     transformOutput : {"identity"}]

BatchPayloads ==
    {NotAnArray} \cup {[isArray |-> TRUE, length |-> n] : n \in 0..MaxPayloads}

InitBatch ==
    /\ ctorConfig \in BatchCtorConfigs
    /\ config = Constructor(ctorConfig)
    /\ options \in BatchCallOptions
    /\ effectiveConfig = NoConfig
    /\ pc = "idle"
    /\ retryCount = 0
    /\ issued = 0
    /\ outstanding = {}
    /\ attemptLog = <<>>
    /\ sleeps = <<>>
    /\ events = <<>>
    /\ validations = <<>>
    /\ transformed = <<>>
    /\ sent = <<>>
    /\ outcome = Pending
    /\ payloads \in BatchPayloads
    /\ batchPc = "idle"
    /\ windowStart = 0
    /\ windows = <<>>
    /\ calls = [k \in 1..payloads.length |-> NewCall]
    /\ results = <<>>
    /\ batchOutcome = Pending
    /\ TrainIdle
    /\ DeployIdle
    /\ NamesIdle

NextBatch ==
    \/ BatchInvoke
    \/ EmptyWindowResolves
    \/ CallRemoteResolves
    \/ CallRemoteRejects
    \/ CallTimerFires
    \/ CallBackoffElapsed
    \/ CallAbandonedSettles

SpecBatch == InitBatch /\ [][NextBatch]_vars

----------------------------------------------------------------------------
(* SageMakerTraining.train and monitorTrainingJob.  trainLog holds the remote *)
(* operations that have completed and the sleeps that have been started, in   *)
(* order: a describe entry carries the status it returned, or the error it    *)
(* rejected with; a sleep entry carries its delay.                            *)

\* Describe calls followed in one train call.
MaxPolls == 4

\* setTimeout(resolve, 60000)
PollIntervalMs == 60000

TerminalStatuses == {"Completed", "Failed", "Stopped"}

\* TrainingJobStatus values that are not terminal; "undefined" is a response
\* without the field
NonTerminalStatuses == {"InProgress", "Stopping", "undefined"}

Statuses == TerminalStatuses \cup NonTerminalStatuses

\* Errors an S3 upload or a SageMaker command rejects with
TrainErrors == {"ThrottlingException", "AccessDeniedException"}

Entry(op, status, ms) == [op |-> op, status |-> status, ms |-> ms]

\* The count of entries of a log with operation op
Count(log, op) == Cardinality({i \in DOMAIN log : log[i].op = op})

\* The TrainingMetadata train returns
Metadata(status) == <<"metadata", status>>

\* The train call as a record, for the operators below
TrainState ==
    [pc |-> trainPc, log |-> trainLog, status |-> lastStatus, outcome |-> trainOutcome]

\* A loop that sleeps after every poll, the terminal one included
AfterDescribeSleepingFirst(t, status) ==
    LET log == Append(Append(t.log, Entry("describe", status, 0)),
                      Entry("sleep", "", PollIntervalMs))
    IN IF status \in TerminalStatuses
       THEN [t EXCEPT !.pc = "done", !.log = log, !.status = status,
                      !.outcome = Resolved(Metadata(status))]
       ELSE [t EXCEPT !.pc = "sleep", !.log = log, !.status = status]

\* A terminal test that takes every status but InProgress for terminal
AfterDescribeUnlessInProgress(t, status) ==
    LET log == Append(t.log, Entry("describe", status, 0)) IN
    IF status # "InProgress"
    THEN [t EXCEPT !.pc = "done", !.log = log, !.status = status,
                   !.outcome = Resolved(Metadata(status))]
    ELSE [t EXCEPT !.pc = "sleep",
                   !.log = Append(log, Entry("sleep", "", PollIntervalMs)),
                   !.status = status]

\* A train that throws when the job ended Failed or Stopped
AfterDescribeRejectingFailed(t, status) ==
    LET log == Append(t.log, Entry("describe", status, 0)) IN
    IF status = "Completed"
    THEN [t EXCEPT !.pc = "done", !.log = log, !.status = status,
                   !.outcome = Resolved(Metadata(status))]
    ELSE IF status \in TerminalStatuses
    THEN [t EXCEPT !.pc = "done", !.log = log, !.status = status,
                   !.outcome = Rejected(status)]
    ELSE [t EXCEPT !.pc = "sleep",
                   !.log = Append(log, Entry("sleep", "", PollIntervalMs)),
                   !.status = status]

\* A tracker that gives up after two polls and returns the status it has
AfterDescribeGivingUp(t, status) ==
    LET log == Append(t.log, Entry("describe", status, 0)) IN
    IF status \in TerminalStatuses \/ Count(log, "describe") >= 2
    THEN [t EXCEPT !.pc = "done", !.log = log, !.status = status,
                   !.outcome = Resolved(Metadata(status))]
    ELSE [t EXCEPT !.pc = "sleep",
                   !.log = Append(log, Entry("sleep", "", PollIntervalMs)),
                   !.status = status]

\* monitorTrainingJob from the return of a describe call to its next await:
\* a terminal status is returned, and train returns its metadata; otherwise the
\* sleep is started
AfterDescribe(t, status) ==
    LET log == Append(t.log, Entry("describe", status, 0)) IN
    IF status \in TerminalStatuses
    THEN [t EXCEPT !.pc = "done", !.log = log, !.status = status,
                   !.outcome = Resolved(Metadata(status))]
    ELSE [t EXCEPT !.pc = "sleep",
                   !.log = Append(log, Entry("sleep", "", PollIntervalMs)),
                   !.status = status]

\* A tracker that takes a failed describe call for a poll without a status
AfterDescribeFailureRetrying(t, err) ==
    [t EXCEPT !.pc = "sleep",
              !.log = Append(Append(t.log, Entry("describe", err, 0)),
                             Entry("sleep", "", PollIntervalMs))]

\* A describe call rejects: monitorTrainingJob has no catch, and the catch block
\* of train rethrows
AfterDescribeFailure(t, err) ==
    [t EXCEPT !.pc = "done",
              !.log = Append(t.log, Entry("describe", err, 0)),
              !.outcome = Rejected(err)]

TrainBecomes(t) ==
    /\ trainPc' = t.pc
    /\ trainLog' = t.log
    /\ lastStatus' = t.status
    /\ trainOutcome' = t.outcome

\* Values of Date.now() at a submission
Timestamps == {"t1", "t2"}

\* `${this.config.service}-${this.frameworkConfig.framework}-${Date.now()}`
TrainingJobName(service, model, framework, now) == <<service, framework, now>>

\* train(resourceConfig, hyperParameters, inputData) is called: the job is named
\* and the upload of the source archive is started
Train ==
    /\ trainPc = "idle"
    /\ trainPc' = "source"
    /\ \E now \in Timestamps :
        trainJob' = [trainJob EXCEPT
                        !.name = TrainingJobName(trainJob.service, trainJob.model,
                                                 trainJob.framework, now)]
    /\ UNCHANGED <<trainLog, lastStatus, trainOutcome, OutsideTrain>>

\* prepareSourceDir resolves: the uploads of the input channels are started
SourceUploaded ==
    /\ trainPc = "source"
    /\ trainPc' = "inputs"
    /\ trainLog' = Append(trainLog, Entry("uploadSource", "", 0))
    /\ UNCHANGED <<lastStatus, trainOutcome, trainJob, OutsideTrain>>

\* Promise.all of the prepareInputData calls resolves: CreateTrainingJob is sent
\* with TrainingJobName: trainingJobName
InputsUploaded ==
    /\ trainPc = "inputs"
    /\ trainPc' = "create"
    /\ trainLog' = Append(trainLog, Entry("uploadInputs", "", 0))
    /\ trainJob' = [trainJob EXCEPT !.submitted = trainJob.name]
    /\ UNCHANGED <<lastStatus, trainOutcome, OutsideTrain>>

\* CreateTrainingJob resolves: monitorTrainingJob sends its first describe call
JobCreated ==
    /\ trainPc = "create"
    /\ trainPc' = "describe"
    /\ trainLog' = Append(trainLog, Entry("create", "", 0))
    /\ trainJob' = [trainJob EXCEPT !.remote = "InProgress"]
    /\ UNCHANGED <<lastStatus, trainOutcome, OutsideTrain>>

\* The operation a train call awaits at a position before the polling
StepOp(position) ==
    CASE position = "source" -> "uploadSource"
      [] position = "inputs" -> "uploadInputs"
      [] OTHER -> "create"

\* A train that logs a failure of CreateTrainingJob and goes on to poll
StepFailsPollingAnyway ==
    /\ trainPc \in {"source", "inputs", "create"}
    /\ \E err \in TrainErrors :
        /\ trainLog' = Append(trainLog, Entry(StepOp(trainPc), err, 0))
        /\ IF trainPc = "create"
           THEN trainPc' = "describe" /\ UNCHANGED trainOutcome
           ELSE trainPc' = "done" /\ trainOutcome' = Rejected(err)
    /\ UNCHANGED <<lastStatus, trainJob, OutsideTrain>>

\* An upload or CreateTrainingJob rejects: the catch block of train rethrows
StepFails ==
    /\ trainPc \in {"source", "inputs", "create"}
    /\ \E err \in TrainErrors :
        /\ trainLog' = Append(trainLog, Entry(StepOp(trainPc), err, 0))
        /\ trainPc' = "done"
        /\ trainOutcome' = Rejected(err)
    /\ UNCHANGED <<lastStatus, trainJob, OutsideTrain>>

\* The remote job moves on while the tracker polls; a terminal status is
\* final.  The status may also be one the tracker does not know, or missing.
JobMoves ==
    /\ trainPc \in {"describe", "sleep"}
    /\ trainJob.remote \in NonTerminalStatuses
    /\ \E status \in Statuses \ {trainJob.remote} :
        trainJob' = [trainJob EXCEPT !.remote = status]
    /\ UNCHANGED <<trainPc, trainLog, lastStatus, trainOutcome, OutsideTrain>>

\* The describe call in flight resolves with the status of the job; when train
\* returns, its metadata
\* carries trainingJobName
DescribeReturns ==
    /\ trainPc = "describe"
    /\ TrainBecomes(AfterDescribe(TrainState, trainJob.remote))
    /\ trainJob' = IF trainOutcome'.kind = "resolved"
                   THEN [trainJob EXCEPT !.returned = trainJob.name]
                   ELSE trainJob
    /\ UNCHANGED OutsideTrain

\* The describe call in flight rejects
DescribeFails ==
    /\ trainPc = "describe"
    /\ \E err \in TrainErrors : TrainBecomes(AfterDescribeFailure(TrainState, err))
    /\ UNCHANGED <<trainJob, OutsideTrain>>

\* The sleep ends: the next describe call is sent
SleepElapsed ==
    /\ trainPc = "sleep"
    /\ Count(trainLog, "describe") < MaxPolls
    /\ trainPc' = "describe"
    /\ UNCHANGED <<trainLog, lastStatus, trainOutcome, trainJob, OutsideTrain>>

\* The training instances: this.config.service, this.config.model and
\* this.frameworkConfig.framework
TrainInstances ==
    [service : {"svc"}, model : {"model"}, framework : {"pytorch", "xgboost"},
     name : {<<>>}, submitted : {<<>>}, returned : {<<>>}, remote : {NoStatus}]

InitTrain ==
    /\ ctorConfig \in {[retry |-> EmptyObject, monitoring |-> EmptyObject,
                        validation |-> EmptyObject, batch |-> EmptyObject]}
    /\ config = Constructor(ctorConfig)
    /\ options \in {[retry |-> EmptyObject, monitoring |-> EmptyObject,
                     validation |-> EmptyObject, transformInput |-> "identity",
                     transformOutput |-> "identity"]}
    /\ effectiveConfig = NoConfig
    /\ pc = "idle"
    /\ retryCount = 0
    /\ issued = 0
    /\ outstanding = {}
    /\ attemptLog = <<>>
    /\ sleeps = <<>>
    /\ events = <<>>
    /\ validations = <<>>
    /\ transformed = <<>>
    /\ sent = <<>>
    /\ outcome = Pending
    /\ payloads = NotAnArray
    /\ batchPc = "idle"
    /\ windowStart = 0
    /\ windows = <<>>
    /\ calls = <<>>
    /\ results = <<>>
    /\ batchOutcome = Pending
    /\ trainPc = "idle"
    /\ trainLog = <<>>
    /\ lastStatus = NoStatus
    /\ trainOutcome = Pending
    /\ trainJob \in TrainInstances
    /\ DeployIdle
    /\ NamesIdle

NextTrain ==
    \/ Train
    \/ SourceUploaded
    \/ InputsUploaded
    \/ JobCreated
    \/ StepFails
    \/ JobMoves
    \/ DescribeReturns
    \/ DescribeFails
    \/ SleepElapsed

SpecTrain == InitTrain /\ [][NextTrain]_vars

\* The tracker under fair scheduling: a describe call that was sent settles,
\* and the timer of a sleep fires.
TrainFairness == WF_vars(DescribeReturns \/ DescribeFails) /\ WF_vars(SleepElapsed)

SpecTrainFair == InitTrain /\ [][NextTrain]_vars /\ TrainFairness

----------------------------------------------------------------------------
(* BaseSageMakerDeployment.deploy (src/unnamed/part_001).  Two calls are made *)
(* on one instance, so on one service and model, and their remote calls       *)
(* interleave.  A remote call takes effect on the account when it settles.    *)
(* The log of a call holds, in order, the commands it sent ("sent") and how   *)
(* each settled ("ok", or the error).  Errors are named; what the code reads  *)
(* of an error is its name and the phrases its message contains.              *)

Callers == {"first", "second"}

Service == "svc"
Model == "model"

\* Errors of the SageMaker client
AlreadyExists == "AlreadyExists"
CouldNotFind == "CouldNotFind"
ResourceNotFound == "ResourceNotFound"
NotFoundOtherwise == "NotFoundOtherwise"
Throttling == "Throttling"

\* new Error("Either modelPath or trainingJobName must be provided")
ConfigurationError == "Either modelPath or trainingJobName must be provided"

\* error.name
ErrorName(e) ==
    CASE e = AlreadyExists -> "ValidationException"
      [] e = CouldNotFind -> "ValidationException"
      [] e = ResourceNotFound -> "ResourceNotFound"
      [] e = NotFoundOtherwise -> "ResourceNotFoundException"
      [] OTHER -> "ThrottlingException"

\* The phrases of interest that error.message contains
MessagePhrases(e) ==
    CASE e = AlreadyExists -> {"already exist"}
      [] e = CouldNotFind -> {"Could not find endpoint"}
      [] e = NotFoundOtherwise -> {"not found"}
      [] OTHER -> {}

\* error.message.includes(phrase)
Includes(e, phrase) == phrase \in MessagePhrases(e)

\* The errors that say the endpoint does not exist
NotFoundErrors == {CouldNotFind, ResourceNotFound, NotFoundOtherwise}

\* Values of generateResourceId()
ResourceIds == {"id1", "id2"}

DeployInputs ==
    [modelPath : {"undefined", "s3://bucket/model.tar.gz"},
     trainingJobName : {"undefined", "job-1", "job-2"}]

\* `${deployInput.trainingJobName ?? this.getModelName(resourceId)}-model`
ModelNameOf(input, resourceId) ==
    IF input.trainingJobName # "undefined"
    THEN <<input.trainingJobName, "-model">>
    ELSE <<Service, Model, resourceId, "-model">>

\* `${deployInput.trainingJobName ?? this.getConfigName(resourceId)}-config`
ConfigNameOf(input, resourceId) ==
    IF input.trainingJobName # "undefined"
    THEN <<input.trainingJobName, "-config">>
    ELSE <<Service, Model, resourceId, "-config">>

\* getEndpointName()
EndpointName == <<Service, Model, "-endpoint">>

\* getS3ModelPath(deployInput) throws
S3ModelPathThrows(input) ==
    input.modelPath = "undefined" /\ input.trainingJobName = "undefined"

NoName == <<>>

\* A deploy call that has not been made
NewDeploy(input) ==
    [input |-> input, pc |-> "idle", resourceId |-> "", modelName |-> NoName,
     configName |-> NoName, exists |-> "undefined", log |-> <<>>, outcome |-> Pending]

Sent(op, arg) == [op |-> op, ev |-> "sent", arg |-> arg]
Settled(op, result) == [op |-> op, ev |-> result, arg |-> NoName]

\* The DeploymentResult deploy returns
DeploymentResult(d, status) == <<status, d.modelName, EndpointName>>

\* The catch block of deploy: log and rethrow
DeployRejects(d, op, err) ==
    [d EXCEPT !.pc = "done", !.log = Append(d.log, Settled(op, err)),
              !.outcome = Rejected(err)]

\* deploy without the test of getS3ModelPath
DeployStartUnchecked(d, resourceId) ==
    LET named == [d EXCEPT !.resourceId = resourceId,
                           !.modelName = ModelNameOf(d.input, resourceId),
                           !.configName = ConfigNameOf(d.input, resourceId)]
    IN [named EXCEPT !.pc = "createModel",
                     !.log = Append(d.log, Sent("createModel", named.modelName))]

\* deploy from its entry to its first await
DeployStart(d, resourceId) ==
    LET named == [d EXCEPT !.resourceId = resourceId,
                           !.modelName = ModelNameOf(d.input, resourceId),
                           !.configName = ConfigNameOf(d.input, resourceId)]
    IN IF S3ModelPathThrows(d.input)
       THEN [named EXCEPT !.pc = "done", !.outcome = Rejected(ConfigurationError)]
       ELSE [named EXCEPT !.pc = "createModel",
                          !.log = Append(d.log, Sent("createModel", named.modelName))]

\* A createModel whose catch block swallows every error
AfterCreateModelSwallowingAll(d, result) ==
    [d EXCEPT !.pc = "createConfig",
              !.log = d.log \o <<Settled("createModel", result),
                                 Sent("createConfig", d.configName)>>]

\* createModel once CreateModelCommand has settled, and deploy up to the send
\* of CreateEndpointConfigCommand
AfterCreateModel(d, result) ==
    IF result = "ok" \/ Includes(result, "already exist")
    THEN [d EXCEPT !.pc = "createConfig",
                   !.log = d.log \o <<Settled("createModel", result),
                                      Sent("createConfig", d.configName)>>]
    ELSE DeployRejects(d, "createModel", result)

\* A deploy without the try/catch around CreateEndpointConfigCommand
AfterCreateConfigStrict(d, result) ==
    IF result = "ok"
    THEN [d EXCEPT !.pc = "probe",
                   !.log = d.log \o <<Settled("createConfig", result),
                                      Sent("describeEndpoint", EndpointName)>>]
    ELSE DeployRejects(d, "createConfig", result)

\* deploy once CreateEndpointConfigCommand has settled, up to the send of
\* DescribeEndpointCommand in endpointExists
AfterCreateConfig(d, result) ==
    IF result = "ok" \/ Includes(result, "already exist")
    THEN [d EXCEPT !.pc = "probe",
                   !.log = d.log \o <<Settled("createConfig", result),
                                      Sent("describeEndpoint", EndpointName)>>]
    ELSE DeployRejects(d, "createConfig", result)

\* What endpointExists does with the result of DescribeEndpointCommand:
\* "true", "false", or "throws"
endpointExists(result) ==
    IF result = "ok" THEN "true"
    ELSE IF ErrorName(result) = "ResourceNotFound"
            \/ Includes(result, "Could not find endpoint")
         THEN "false"
         ELSE "throws"

\* The branches of `if (exists)` the other way round
AfterProbeSwapped(d, result) ==
    LET exists == endpointExists(result) IN
    IF exists = "throws"
    THEN DeployRejects(d, "describeEndpoint", result)
    ELSE [d EXCEPT
            !.exists = exists,
            !.pc = IF exists = "true" THEN "createEndpoint" ELSE "updateEndpoint",
            !.log = d.log \o <<Settled("describeEndpoint", result),
                               Sent(IF exists = "true" THEN "createEndpoint"
                                    ELSE "updateEndpoint", d.configName)>>]

\* deploy once endpointExists has settled, up to the send of
\* UpdateEndpointCommand or CreateEndpointCommand
AfterProbe(d, result) ==
    LET exists == endpointExists(result) IN
    IF exists = "throws"
    THEN DeployRejects(d, "describeEndpoint", result)
    ELSE [d EXCEPT
            !.exists = exists,
            !.pc = IF exists = "true" THEN "updateEndpoint" ELSE "createEndpoint",
            !.log = d.log \o <<Settled("describeEndpoint", result),
                               Sent(IF exists = "true" THEN "updateEndpoint"
                                    ELSE "createEndpoint", d.configName)>>]

\* deploy once UpdateEndpointCommand or CreateEndpointCommand has settled
AfterEndpointCall(d, result) ==
    IF result = "ok"
    THEN [d EXCEPT !.pc = "done",
                   !.log = Append(d.log, Settled(d.pc, "ok")),
                   !.outcome = Resolved(DeploymentResult(d,
                                   IF d.pc = "updateEndpoint" THEN "Updated"
                                   ELSE "Created"))]
    ELSE DeployRejects(d, d.pc, result)

\* The names of the models (or endpoint configs) that exist
Names(resources) == {r.name : r \in resources}

\* How the account may answer a command of a call
RemoteResults(d) ==
    {Throttling} \cup
    CASE d.pc = "createModel" ->
            IF d.modelName \in Names(remote.models) THEN {AlreadyExists} ELSE {"ok"}
      [] d.pc = "createConfig" ->
            IF d.configName \in Names(remote.configs) THEN {AlreadyExists} ELSE {"ok"}
      [] d.pc = "probe" ->
            IF remote.endpoint.exists THEN {"ok"} ELSE NotFoundErrors
      [] d.pc = "createEndpoint" ->
            IF remote.endpoint.exists THEN {AlreadyExists} ELSE {"ok"}
      [] d.pc = "updateEndpoint" ->
            IF remote.endpoint.exists THEN {"ok"} ELSE {CouldNotFind}

\* The account after a command of call c has settled with result
RemoteAfter(c, d, result) ==
    IF result # "ok" THEN remote
    ELSE CASE d.pc = "createModel" ->
                [remote EXCEPT !.models = @ \cup {[name |-> d.modelName, by |-> c]}]
           [] d.pc = "createConfig" ->
                [remote EXCEPT !.configs = @ \cup {[name |-> d.configName, by |-> c,
                                                    model |-> d.modelName]}]
           [] d.pc \in {"createEndpoint", "updateEndpoint"} ->
                [remote EXCEPT !.endpoint = [exists |-> TRUE, config |-> d.configName]]
           [] OTHER -> remote

\* What a deploy call does when the command it awaits settles with result
AfterSettled(d, result) ==
    CASE d.pc = "createModel" -> AfterCreateModel(d, result)
      [] d.pc = "createConfig" -> AfterCreateConfig(d, result)
      [] d.pc = "probe" -> AfterProbe(d, result)
      [] OTHER -> AfterEndpointCall(d, result)

\* deploy(deployInput, serverlessConfig) is called
Deploy ==
    /\ \E c \in Callers, resourceId \in ResourceIds :
        /\ deploys[c].pc = "idle"
        /\ deploys' = [deploys EXCEPT ![c] = DeployStart(deploys[c], resourceId)]
    /\ UNCHANGED <<remote, OutsideDeploy>>

\* CreateModelCommand of a call settles
CreateModelSettles ==
    /\ \E c \in Callers :
        /\ deploys[c].pc = "createModel"
        /\ \E result \in RemoteResults(deploys[c]) :
            /\ deploys' = [deploys EXCEPT ![c] = AfterSettled(deploys[c], result)]
            /\ remote' = RemoteAfter(c, deploys[c], result)
    /\ UNCHANGED OutsideDeploy

\* CreateEndpointConfigCommand of a call settles
CreateConfigSettles ==
    /\ \E c \in Callers :
        /\ deploys[c].pc = "createConfig"
        /\ \E result \in RemoteResults(deploys[c]) :
            /\ deploys' = [deploys EXCEPT ![c] = AfterSettled(deploys[c], result)]
            /\ remote' = RemoteAfter(c, deploys[c], result)
    /\ UNCHANGED OutsideDeploy

\* DescribeEndpointCommand of a call settles
ProbeSettles ==
    /\ \E c \in Callers :
        /\ deploys[c].pc = "probe"
        /\ \E result \in RemoteResults(deploys[c]) :
            /\ deploys' = [deploys EXCEPT ![c] = AfterSettled(deploys[c], result)]
            /\ remote' = RemoteAfter(c, deploys[c], result)
    /\ UNCHANGED OutsideDeploy

\* CreateEndpointCommand or UpdateEndpointCommand of a call settles
EndpointCallSettles ==
    /\ \E c \in Callers :
        /\ deploys[c].pc \in {"createEndpoint", "updateEndpoint"}
        /\ \E result \in RemoteResults(deploys[c]) :
            /\ deploys' = [deploys EXCEPT ![c] = AfterSettled(deploys[c], result)]
            /\ remote' = RemoteAfter(c, deploys[c], result)
    /\ UNCHANGED OutsideDeploy

\* The endpoint config of an endpoint deployed before the two calls
OldConfig == <<"old", "-config">>

\* The accounts the calls start on: the endpoint exists or not
Accounts ==
    {[models |-> {}, configs |-> {}, endpoint |-> [exists |-> FALSE, config |-> NoName]],
     [models |-> {}, configs |-> {}, endpoint |-> [exists |-> TRUE, config |-> OldConfig]]}

InitDeploy ==
    /\ ctorConfig \in {[retry |-> EmptyObject, monitoring |-> EmptyObject,
                        validation |-> EmptyObject, batch |-> EmptyObject]}
    /\ config = Constructor(ctorConfig)
    /\ options \in {[retry |-> EmptyObject, monitoring |-> EmptyObject,
                     validation |-> EmptyObject, transformInput |-> "identity",
                     transformOutput |-> "identity"]}
    /\ effectiveConfig = NoConfig
    /\ pc = "idle"
    /\ retryCount = 0
    /\ issued = 0
    /\ outstanding = {}
    /\ attemptLog = <<>>
    /\ sleeps = <<>>
    /\ events = <<>>
    /\ validations = <<>>
    /\ transformed = <<>>
    /\ sent = <<>>
    /\ outcome = Pending
    /\ BatchIdle
    /\ TrainIdle
    /\ NamesIdle
    /\ deploys \in [Callers -> {NewDeploy(input) : input \in DeployInputs}]
    /\ remote \in Accounts

NextDeploy ==
    \/ Deploy
    \/ CreateModelSettles
    \/ CreateConfigSettles
    \/ ProbeSettles
    \/ EndpointCallSettles

SpecDeploy == InitDeploy /\ [][NextDeploy]_vars

----------------------------------------------------------------------------
(* The names of training jobs.  Two train calls are submitted, each on an      *)
(* instance with its own service, model and framework, at its own time.        *)

Submitters == {"first", "second"}

\* A submission: the configuration of its instance, the value of Date.now()
\* at the call, and the trainingJobName computed (none before the call)
SubmissionInputs ==
    [service : {"svc", "svc2"}, model : {"model", "model2"},
     framework : {"pytorch", "xgboost"}, now : Timestamps, name : {NoName}]

\* const trainingJobName of a submission
NameOfSubmission(sub) == TrainingJobName(sub.service, sub.model, sub.framework, sub.now)

\* train is called by a submitter: the job is named
Submit ==
    /\ \E who \in Submitters :
        /\ submissions[who].name = NoName
        /\ submissions' = [submissions EXCEPT
                              ![who].name = NameOfSubmission(submissions[who])]
    /\ UNCHANGED OutsideNames

InitName ==
    /\ ctorConfig \in {[retry |-> EmptyObject, monitoring |-> EmptyObject,
                        validation |-> EmptyObject, batch |-> EmptyObject]}
    /\ config = Constructor(ctorConfig)
    /\ options \in {[retry |-> EmptyObject, monitoring |-> EmptyObject,
                     validation |-> EmptyObject, transformInput |-> "identity",
                     transformOutput |-> "identity"]}
    /\ effectiveConfig = NoConfig
    /\ pc = "idle"
    /\ retryCount = 0
    /\ issued = 0
    /\ outstanding = {}
    /\ attemptLog = <<>>
    /\ sleeps = <<>>
    /\ events = <<>>
    /\ validations = <<>>
    /\ transformed = <<>>
    /\ sent = <<>>
    /\ outcome = Pending
    /\ BatchIdle
    /\ TrainIdle
    /\ DeployIdle
    /\ submissions \in [Submitters -> SubmissionInputs]

NextName == Submit

SpecName == InitName /\ [][NextName]_vars

----------------------------------------------------------------------------
(* Vocabulary of the properties. *)

\* The effective maxAttempts of the call
MaxAttempts == NumField(effectiveConfig.retry, "maxAttempts")

\* The effective backoffMultiplier of the call
Multiplier == NumField(effectiveConfig.retry, "backoffMultiplier")

\* What the race of the last attempt so far settled with
LastAttempt == attemptLog[Len(attemptLog)]

\* At least one attempt has ended, and the race of every ended attempt rejected
EveryAttemptFailed ==
    /\ attemptLog # <<>>
    /\ \A i \in DOMAIN attemptLog : attemptLog[i] # "ok"

\* Monitoring is enabled for the call and a metrics callback is configured
Monitored == pc # "idle" /\ Truthy(MetricsCallbackOf(effectiveConfig.monitoring))

\* executeWithRetry threw out of its final catch: the attempts are used up
Exhausted ==
    /\ pc = "done"
    /\ issued >= 1
    /\ outcome.kind = "rejected"
    /\ outcome.error \notin {CustomValidationError, InvalidResponseError}

SuccessEvents == {i \in DOMAIN events : events[i].success}
FailureEvents == {i \in DOMAIN events : ~events[i].success}

----------------------------------------------------------------------------
(* The properties. *)

\* C1: for maxAttempts = N >= 0, a call whose remote call fails on every
\* attempt never makes more than N+1 attempts, rejects once the attempt N+1 has
\* failed and not before, and never resolves.
C1_ExactlyNPlusOneAttempts ==
    (MaxAttempts >= 0 /\ EveryAttemptFailed) =>
        /\ issued <= MaxAttempts + 1
        /\ outcome.kind # "resolved"
        /\ (outcome.kind = "rejected") = (Len(attemptLog) = MaxAttempts + 1)
        /\ (outcome.kind = "rejected") => issued = MaxAttempts + 1

C1_Witness ==
    /\ MaxAttempts = MaxRetries
    /\ EveryAttemptFailed
    /\ outcome.kind = "rejected"
    /\ issued = MaxRetries + 1

\* C2: when every attempt of a call fails, the call rejects with the error of
\* the last attempt, unchanged.
C2_RejectsWithLastError ==
    (pc = "done" /\ EveryAttemptFailed) => outcome = Rejected(LastAttempt)

\* C3: with monitoring enabled and a callback configured, a call that uses up
\* its attempts calls the callback exactly once, with success = false and the
\* last attempt's error message, and never with success = true.
C3_OneFailureEventOnExhaustion ==
    (Monitored /\ Exhausted) =>
        /\ Len(events) = 1
        /\ ~events[1].success
        /\ events[1].error = LastAttempt

\* C4: with monitoring enabled and a callback configured, a call whose remote
\* call succeeds on some attempt calls the callback exactly once with
\* success = true and never with success = false.
C4_OneSuccessEventOnSuccess ==
    (Monitored /\ \E i \in DOMAIN attemptLog : attemptLog[i] = "ok") =>
        /\ Cardinality(SuccessEvents) = 1
        /\ FailureEvents = {}

\* C5: with monitoring enabled and a callback configured, a settled call has
\* emitted exactly one event, whose success flag tells whether it resolved.
C5_OneEventMatchingOutcome ==
    (pc = "done" /\ Truthy(MetricsCallbackOf(effectiveConfig.monitoring))) =>
        /\ Len(events) = 1
        /\ events[1].success = (outcome.kind = "resolved")

ValidationErrors == {CustomValidationError, InvalidResponseError}

\* The custom validator has been called and returned false
ValidatorRejected ==
    /\ validations # <<>>
    /\ ~validations[Len(validations)].accepted

C7_BackoffDelays ==
    (pc # "idle" /\ Multiplier # Undefined) =>
        /\ \A k \in DOMAIN sleeps :
              sleeps[k] = IF k = 1 THEN 1000 ELSE 1000 * Multiplier ^ (k - 1)
        /\ Multiplier >= 1 =>
              \A i, j \in DOMAIN sleeps : i <= j => sleeps[i] <= sleeps[j]
        /\ Len(sleeps) = retryCount + (IF pc = "sleep" THEN 1 ELSE 0)
        /\ pc = "sleep" => Len(attemptLog) = Len(sleeps)
        /\ (pc = "done" /\ issued >= 1) => Len(sleeps) = issued - 1

C7_Witness ==
    /\ Exhausted
    /\ Multiplier = 2
    /\ sleeps = <<1000, 2000, 4000>>

\* C8: an attempt whose timer fires before its remote call settles fails with
\* the error "Timeout", which uses up one attempt and is retried (or, on the
\* last attempt, surfaced) the way a remote error is; an attempt whose remote
\* call settles first ends with that call's outcome, so a remote call is left
\* unsettled by an ended attempt only when that attempt timed out.
C8_TimeoutIsRetryableFailure ==
    /\ TimeoutError \notin RemoteErrors
    /\ issued = Len(attemptLog) + (IF pc = "race" THEN 1 ELSE 0)
    /\ \A i \in DOMAIN attemptLog :
          /\ (i - 1 \in outstanding) => attemptLog[i] = TimeoutError
          /\ (attemptLog[i] = TimeoutError \/ attemptLog[i] \in RemoteErrors) =>
                IF MayRetry(effectiveConfig.retry, i - 1)
                THEN Len(sleeps) >= i
                ELSE /\ i = Len(attemptLog)
                     /\ pc = "done"
                     /\ outcome.kind = "rejected"

C8_Witness ==
    /\ Len(attemptLog) = 3
    /\ attemptLog[1] = TimeoutError
    /\ attemptLog[2] \in RemoteErrors
    /\ attemptLog[3] = "ok"
    /\ outcome.kind = "resolved"
    /\ 0 \in outstanding

\* C9: at every moment at most one remote call issued by the call is
\* outstanding.
C9_AtMostOneOutstanding == Cardinality(outstanding) <= 1

\* The defaults the constructor puts under a section of the configuration
SectionDefaults(s) == IF s = "retry" THEN RetryDefaults ELSE EnabledDefault

\* C10: each field of retry, validation and monitoring of the effective
\* configuration is the call options' value when the call options have the
\* field (whatever the value), else the instance configuration's when it has
\* the field, else the default.
C10_PerFieldMerge ==
    pc = "merged" =>
        \A s \in {"retry", "validation", "monitoring"} :
            /\ DOMAIN effectiveConfig[s] =
                  (DOMAIN options[s]) \cup (DOMAIN ctorConfig[s])
                      \cup (DOMAIN SectionDefaults(s))
            /\ \A k \in DOMAIN effectiveConfig[s] :
                  effectiveConfig[s][k] =
                      IF k \in DOMAIN options[s] THEN options[s][k]
                      ELSE IF k \in DOMAIN ctorConfig[s] THEN ctorConfig[s][k]
                      ELSE SectionDefaults(s)[k]

C10_Witness ==
    /\ pc = "merged"
    /\ ctorConfig.monitoring = Only("enabled", "true")
    /\ options.monitoring = Only("enabled", "false")
    /\ effectiveConfig.monitoring.enabled = "false"
    /\ ctorConfig.retry = Only("maxAttempts", MaxRetries + 1)
    /\ options.retry = Only("timeoutMs", 0)
    /\ effectiveConfig.retry.maxAttempts = MaxRetries + 1
    /\ effectiveConfig.retry.timeoutMs = 0

\* C11: whatever the instance configuration and the call options, the
\* effective maxAttempts, timeoutMs and backoffMultiplier are all defined
\* numbers.
C11_RetryFieldsAreNumbers ==
    pc = "merged" =>
        \A k \in RetryKeys :
            /\ k \in DOMAIN effectiveConfig.retry
            /\ effectiveConfig.retry[k] # Undefined

\* C12: when the instance configuration and the call options both supply a
\* metrics callback, every metrics event of the call goes to the call-level
\* callback; when both supply a custom validator, every validation of the
\* call is made by the call-level validator.
C12_CallLevelFunctionReplaces ==
    /\ (/\ Field(ctorConfig.monitoring, "metricsCallback") = "instanceCallback"
        /\ Field(options.monitoring, "metricsCallback") = "callCallback")
       => \A i \in DOMAIN events : events[i].by = "callCallback"
    /\ (/\ Field(ctorConfig.validation, "customValidator") = "instanceValidator"
        /\ Field(options.validation, "customValidator") = "callValidator")
       => \A i \in DOMAIN validations : validations[i].by = "callValidator"

C12_Witness ==
    /\ Field(ctorConfig.monitoring, "metricsCallback") = "instanceCallback"
    /\ Field(options.monitoring, "metricsCallback") = "callCallback"
    /\ Field(ctorConfig.validation, "customValidator") = "instanceValidator"
    /\ Field(options.validation, "customValidator") = "callValidator"
    /\ Len(events) = 1
    /\ events[1].by = "callCallback"
    /\ Len(validations) = 1
    /\ validations[1].by = "callValidator"

----------------------------------------------------------------------------
(* Properties of batchInvokeEndpoint (SpecBatch). *)

BatchCalled == batchPc # "idle"
Started(k) == calls[k].pc # "unstarted"
Failed(k) == calls[k].outcome.kind = "rejected"
NothingStarted ==
    /\ windows = <<>>
    /\ \A k \in DOMAIN calls : calls[k] = NewCall
NonEmptyArray == payloads.isArray /\ payloads.length > 0

\* C13: batchInvokeEndpoint called with an empty payload array resolves to an
\* empty array, issues no remote call and emits no metrics event, whatever the
\* batch configuration.
C13_EmptyArrayResolvesEmpty ==
    (payloads.isArray /\ payloads.length = 0 /\ BatchCalled)
        => /\ batchPc = "done"
           /\ batchOutcome = Resolved(<<>>)
           /\ NothingStarted

C13_Witness ==
    /\ payloads.isArray
    /\ payloads.length = 0
    /\ ~Truthy(Field(config.batch, "enabled"))
    /\ batchOutcome = Resolved(<<>>)

\* C14 as stated: for every payloads array, a call on an instance whose
\* batch.enabled is false rejects with the batch-disabled error and issues no
\* remote call.
C14_DisabledRejectsEveryArray ==
    (payloads.isArray /\ Field(config.batch, "enabled") = "false" /\ BatchCalled)
        => /\ batchOutcome = Rejected(BatchDisabledError)
           /\ NothingStarted

\* C14 amended: for every non-empty payloads array, a call on an instance whose
\* batch.enabled is false rejects at once with the batch-disabled error and
\* issues no remote call; for the empty array it resolves to the empty array.
C14_DisabledRejectsNonEmptyArray ==
    (payloads.isArray /\ Field(config.batch, "enabled") = "false" /\ BatchCalled)
        => /\ batchPc = "done"
           /\ NothingStarted
           /\ batchOutcome = IF payloads.length = 0
                             THEN Resolved(<<>>)
                             ELSE Rejected(BatchDisabledError)

C14_Witness ==
    /\ NonEmptyArray
    /\ Field(config.batch, "enabled") = "false"
    /\ batchOutcome = Rejected(BatchDisabledError)

\* The constructor configuration sets batch.enabled, and to a falsy value
ExplicitlyDisabled ==
    /\ "enabled" \in DOMAIN ctorConfig.batch
    /\ ~Truthy(ctorConfig.batch["enabled"])

\* C15 as stated: on an instance whose configuration does not set batch.enabled
\* to true, a call with a non-empty payload array fails with the batch-disabled
\* error.
C15_OffUnlessEnabled ==
    (NonEmptyArray /\ Field(ctorConfig.batch, "enabled") # "true" /\ batchPc = "done")
        => batchOutcome = Rejected(BatchDisabledError)

\* C15 amended: batch processing is on unless the configuration sets
\* batch.enabled to a falsy value: a call with a non-empty payload array fails
\* with the batch-disabled error, having started nothing, exactly on those
\* instances.
C15_OnUnlessDisabled ==
    (NonEmptyArray /\ BatchCalled)
        => /\ batchOutcome = Rejected(BatchDisabledError) <=> ExplicitlyDisabled
           /\ ExplicitlyDisabled => batchPc = "done" /\ NothingStarted

C15_Witness ==
    /\ NonEmptyArray
    /\ ctorConfig.batch = EmptyObject
    /\ batchOutcome.kind = "resolved"
    /\ Len(batchOutcome.value) = payloads.length

\* The window of payload k (from 1) when windows hold size payloads
ClaimedWindowOf(k, size) == ((k - 1) \div size) + 1

\* maxBatchSize x concurrency, for a configuration where both are positive
ClaimedWindowSize == config.batch["maxBatchSize"] * config.batch["concurrency"]

PositiveWindow ==
    /\ LessThan(0, config.batch["maxBatchSize"])
    /\ LessThan(0, config.batch["concurrency"])

\* C16: the payloads are partitioned, in order, into consecutive windows of
\* maxBatchSize x concurrency items (the last possibly shorter); the
\* invocations of a window are started together, and none of window N+1 is
\* started before every invocation of window N has settled.
C16_WindowsAreBarriers ==
    PositiveWindow =>
        /\ \A w \in DOMAIN windows :
              windows[w] = {k \in DOMAIN calls : ClaimedWindowOf(k, ClaimedWindowSize) = w}
        /\ \A j, k \in DOMAIN calls :
              /\ ClaimedWindowOf(j, ClaimedWindowSize) = ClaimedWindowOf(k, ClaimedWindowSize)
                    => (Started(j) <=> Started(k))
              /\ (/\ ClaimedWindowOf(j, ClaimedWindowSize) < ClaimedWindowOf(k, ClaimedWindowSize)
                  /\ Started(k))
                    => calls[j].pc = "done"

C16_Witness ==
    /\ payloads.length = 3
    /\ config.batch["maxBatchSize"] = 1
    /\ config.batch["concurrency"] = 2
    /\ Len(windows) = 2
    /\ calls[1].pc = "done"
    /\ calls[2].pc = "done"
    /\ calls[3].pc = "race"

----------------------------------------------------------------------------
(* Properties of monitorTrainingJob and train (SpecTrain). *)

\* The entries of the tracker: the describe calls and the sleeps
TrackerLog == SelectSeq(trainLog, LAMBDA e : e.op \in {"describe", "sleep"})

\* The entries of the describe calls
Describes == SelectSeq(trainLog, LAMBDA e : e.op = "describe")

\* C18: when the first terminal status is returned by describe call k, the
\* tracker returns that status after exactly k describe calls and exactly k-1
\* sleeps of the fixed interval; polls and sleeps alternate strictly, a sleep
\* follows every non-terminal poll and none follows the terminal poll.
C18_PollsAndSleepsAlternate ==
    /\ \A i \in DOMAIN TrackerLog :
          /\ (i % 2 = 1) => TrackerLog[i].op = "describe"
          /\ (i % 2 = 0) => /\ TrackerLog[i].op = "sleep"
                            /\ TrackerLog[i].ms = PollIntervalMs
                            /\ TrackerLog[i - 1].status \in NonTerminalStatuses
          /\ TrackerLog[i].status \in NonTerminalStatuses => i < Len(TrackerLog)
    /\ \A k \in DOMAIN Describes :
          (/\ Describes[k].status \in TerminalStatuses
           /\ \A j \in 1..(k - 1) : Describes[j].status \in NonTerminalStatuses)
            => /\ trainOutcome = Resolved(Metadata(Describes[k].status))
               /\ Count(trainLog, "describe") = k
               /\ Count(trainLog, "sleep") = k - 1
               /\ TrackerLog[Len(TrackerLog)].op = "describe"

C18_Witness ==
    /\ Len(Describes) = 3
    /\ Describes[1].status = "InProgress"
    /\ Describes[2].status = "Stopping"
    /\ Describes[3].status = "Completed"
    /\ Count(trainLog, "sleep") = 2
    /\ trainOutcome = Resolved(Metadata("Completed"))

\* C19: whenever the tracker has returned, the value is one of Completed,
\* Failed, Stopped and is the status read by the most recent describe call; no
\* non-terminal or missing status is ever returned.
C19_ReturnsTerminalStatusRead ==
    trainOutcome.kind = "resolved"
        => /\ trainOutcome.value[2] \in TerminalStatuses
           /\ Describes # <<>>
           /\ trainOutcome.value[2] = Describes[Len(Describes)].status
           /\ trainOutcome.value[2] = lastStatus

C19_Witness ==
    /\ Len(Describes) = 2
    /\ Describes[1].status = "undefined"
    /\ Describes[2].status = "Stopped"
    /\ trainOutcome = Resolved(Metadata("Stopped"))

\* C20: when a describe call fails, the tracker rejects with that error at
\* once: the failed call is its last describe call, no sleep follows it, and
\* train rejects with the same error.
C20_DescribeFailurePropagates ==
    \A i \in DOMAIN trainLog :
        (trainLog[i].op = "describe" /\ trainLog[i].status \in TrainErrors)
            => /\ i = Len(trainLog)
               /\ trainPc = "done"
               /\ trainOutcome = Rejected(trainLog[i].status)

C20_Witness ==
    /\ Len(Describes) = 2
    /\ Describes[1].status = "InProgress"
    /\ Describes[2].status = "ThrottlingException"
    /\ Count(trainLog, "sleep") = 1
    /\ trainOutcome = Rejected("ThrottlingException")

----------------------------------------------------------------------------
(* Properties of deploy (SpecDeploy). *)

\* The commands a call has sent, in order
SentEntries(d) == SelectSeq(d.log, LAMBDA e : e.ev = "sent")

\* How many times a call has sent the command op
SentCount(d, op) == Cardinality({i \in DOMAIN d.log : d.log[i].op = op /\ d.log[i].ev = "sent"})

\* C21: in a deploy call that gets as far as the probe, a probe that reports
\* not-found is followed by exactly one createEndpoint, no updateEndpoint, and
\* a result, if any, of status "Created"; a probe that reports found is followed
\* by exactly one updateEndpoint naming the new endpoint config, no
\* createEndpoint, and a result, if any, of status "Updated".
C21_CreateOrUpdateByProbe ==
    \A c \in Callers :
        LET d == deploys[c] IN
        /\ d.exists = "false"
            => /\ SentCount(d, "createEndpoint") = 1
               /\ SentCount(d, "updateEndpoint") = 0
               /\ d.outcome.kind = "resolved" => d.outcome.value[1] = "Created"
        /\ d.exists = "true"
            => /\ SentCount(d, "updateEndpoint") = 1
               /\ SentCount(d, "createEndpoint") = 0
               /\ \A i \in DOMAIN d.log :
                     (d.log[i].op = "updateEndpoint" /\ d.log[i].ev = "sent")
                        => d.log[i].arg = ConfigNameOf(d.input, d.resourceId)
               /\ d.outcome.kind = "resolved" => d.outcome.value[1] = "Updated"
        /\ d.outcome.kind = "resolved" => d.exists \in {"true", "false"}

C21_Witness ==
    /\ deploys["first"].exists = "false"
    /\ deploys["first"].outcome.kind = "resolved"
    /\ deploys["first"].outcome.value[1] = "Created"
    /\ deploys["second"].exists = "true"
    /\ deploys["second"].outcome.kind = "resolved"
    /\ deploys["second"].outcome.value[1] = "Updated"
    /\ remote.endpoint.config = deploys["second"].configName

\* The order of the commands of a deploy call
CommandOrder == <<{"createModel"}, {"createConfig"}, {"describeEndpoint"},
                  {"createEndpoint", "updateEndpoint"}>>

\* The failures after which a deploy call goes on
Swallowed(e) ==
    \/ e.op \in {"createModel", "createConfig"} /\ e.ev = AlreadyExists
    \/ e.op = "describeEndpoint" /\ e.ev \in NotFoundErrors

\* C22: a deploy call sends createModel, createEndpointConfig, describeEndpoint
\* and then one of createEndpoint / updateEndpoint, in that order and each once;
\* it sends a command only when the one before has settled, and sends nothing
\* after a failure that is not swallowed.
C22_StrictOrder ==
    \A c \in Callers :
        LET d == deploys[c] IN
        /\ Len(SentEntries(d)) <= Len(CommandOrder)
        /\ \A i \in DOMAIN SentEntries(d) : SentEntries(d)[i].op \in CommandOrder[i]
        /\ \A i \in DOMAIN d.log :
              /\ (i % 2 = 1) => d.log[i].ev = "sent"
              /\ (i % 2 = 0) => d.log[i].ev # "sent" /\ d.log[i].op = d.log[i - 1].op
              /\ (d.log[i].ev \notin {"sent", "ok"} /\ i < Len(d.log)) => Swallowed(d.log[i])

C22_Witness ==
    /\ Len(SentEntries(deploys["first"])) = 4
    /\ deploys["first"].outcome.kind = "resolved"
    /\ Len(deploys["second"].log) = 4
    /\ deploys["second"].log[4].ev = Throttling
    /\ deploys["second"].outcome = Rejected(Throttling)

\* C23: an "already exists" failure of createModel or createEndpointConfig is
\* swallowed, the call going on to its next command; any other failure of the
\* two makes deploy reject with it; an "already exists" failure of
\* createEndpoint makes deploy reject with it.
C23_AlreadyExistsSwallowed ==
    \A c \in Callers :
        LET d == deploys[c] IN
        \A i \in DOMAIN d.log :
            /\ (d.log[i].op = "createModel" /\ d.log[i].ev = AlreadyExists)
                => /\ i < Len(d.log)
                   /\ d.log[i + 1] = Sent("createConfig", ConfigNameOf(d.input, d.resourceId))
            /\ (d.log[i].op = "createConfig" /\ d.log[i].ev = AlreadyExists)
                => /\ i < Len(d.log)
                   /\ d.log[i + 1] = Sent("describeEndpoint", EndpointName)
            /\ (/\ d.log[i].op \in {"createModel", "createConfig"}
                /\ d.log[i].ev \notin {"sent", "ok", AlreadyExists})
                => /\ i = Len(d.log)
                   /\ d.outcome = Rejected(d.log[i].ev)
            /\ (d.log[i].op = "createEndpoint" /\ d.log[i].ev = AlreadyExists)
                => /\ i = Len(d.log)
                   /\ d.outcome = Rejected(AlreadyExists)

C23_Witness ==
    /\ \E i \in DOMAIN deploys["second"].log :
          deploys["second"].log[i] = Settled("createModel", AlreadyExists)
    /\ \E i \in DOMAIN deploys["second"].log :
          deploys["second"].log[i] = Settled("createConfig", AlreadyExists)
    /\ \E i \in DOMAIN deploys["second"].log :
          deploys["second"].log[i] = Settled("createEndpoint", AlreadyExists)
    /\ deploys["second"].outcome = Rejected(AlreadyExists)
    /\ deploys["first"].outcome.kind = "resolved"

\* C24: two deploy calls whose generated resource ids differ use different
\* model names and different endpoint-config names, and the endpoint is only
\* ever pointed at an endpoint config created by the call that pointed it.
C24_FreshNamesPerDeploy ==
    (\A c, e \in Callers :
        (c # e /\ deploys[c].pc # "idle" /\ deploys[e].pc # "idle")
            => deploys[c].resourceId # deploys[e].resourceId)
    => /\ \A c, e \in Callers :
             (c # e /\ deploys[c].pc # "idle" /\ deploys[e].pc # "idle")
                => /\ deploys[c].modelName # deploys[e].modelName
                   /\ deploys[c].configName # deploys[e].configName
       /\ \A c \in Callers :
             (/\ deploys[c].outcome.kind = "resolved"
              /\ remote.endpoint.config = deploys[c].configName)
                => \E r \in remote.configs :
                      /\ r.name = deploys[c].configName
                      /\ r.by = c
                      /\ r.model = deploys[c].modelName
                      /\ \E m \in remote.models : m.name = r.model /\ m.by = c

\* C25: every "not found" failure of describeEndpoint, whatever its name or
\* wording, is taken for "the endpoint does not exist" and is not surfaced;
\* every other failure makes deploy reject with it without sending
\* createEndpoint or updateEndpoint.
C25_EveryNotFoundMeansAbsent ==
    \A c \in Callers :
        LET d == deploys[c] IN
        \A i \in DOMAIN d.log :
            (d.log[i].op = "describeEndpoint" /\ d.log[i].ev \notin {"sent", "ok"})
                => IF d.log[i].ev \in NotFoundErrors
                   THEN /\ d.exists = "false"
                        /\ SentCount(d, "createEndpoint") = 1
                   ELSE /\ d.outcome = Rejected(d.log[i].ev)
                        /\ SentCount(d, "createEndpoint") = 0
                        /\ SentCount(d, "updateEndpoint") = 0

\* C26: a deploy call given neither modelPath nor trainingJobName rejects at
\* once with the configuration error and sends no command at all.
C26_MissingModelSourceFailsFirst ==
    \A c \in Callers :
        LET d == deploys[c] IN
        (/\ d.input.modelPath = "undefined"
         /\ d.input.trainingJobName = "undefined"
         /\ d.pc # "idle")
            => /\ d.pc = "done"
               /\ d.outcome = Rejected(ConfigurationError)
               /\ d.log = <<>>
               /\ \A r \in remote.models \cup remote.configs : r.by # c

C26_Witness ==
    /\ deploys["first"].input.modelPath = "undefined"
    /\ deploys["first"].input.trainingJobName = "undefined"
    /\ deploys["first"].outcome = Rejected(ConfigurationError)
    /\ deploys["second"].outcome.kind = "resolved"

----------------------------------------------------------------------------
(* Properties of validation (Spec), job names (SpecName) and train (SpecTrain). *)

\* The default rule is the one in force: validation enabled, no custom validator
DefaultRuleInForce ==
    /\ pc = "done"
    /\ Truthy(Field(effectiveConfig.validation, "enabled"))
    /\ ~Truthy(ValidatorOf(effectiveConfig.validation))

\* C27: with validation enabled and no custom validator, an invocation whose
\* endpoint response is null or an empty array is rejected with a validation
\* error: it never resolves with such a response (identity output transform).
C27_DefaultRuleRejectsNullAndEmpty ==
    (DefaultRuleInForce /\ options.transformOutput = "identity" /\ outcome.kind = "resolved")
        => outcome.value \notin {AssembledResponse(<<"null">>),
                                 AssembledResponse(<<"emptyArray">>)}

\* C28: two submissions get the same job name if and only if they agree on
\* service, model, framework and submission timestamp.
C28_NameDeterminedByAllFour ==
    (\A who \in Submitters : submissions[who].name # NoName)
        => (submissions["first"].name = submissions["second"].name
            <=> /\ submissions["first"].service = submissions["second"].service
                /\ submissions["first"].model = submissions["second"].model
                /\ submissions["first"].framework = submissions["second"].framework
                /\ submissions["first"].now = submissions["second"].now)

\* The entries of trainLog of successful operations
Succeeded(op) == {i \in DOMAIN trainLog : trainLog[i].op = op /\ trainLog[i].status = ""}

\* C29: train uploads the source, then the input data, then sends
\* CreateTrainingJob, then polls; no describe call is made unless
\* CreateTrainingJob has succeeded, and when an upload or CreateTrainingJob
\* fails train rejects with that error and no describe call is made.
C29_TrainStepsInOrder ==
    /\ \A i \in DOMAIN trainLog :
          /\ i = 1 => trainLog[i].op = "uploadSource"
          /\ i = 2 => trainLog[i].op = "uploadInputs"
          /\ i = 3 => trainLog[i].op = "create"
          /\ i > 3 => trainLog[i].op \in {"describe", "sleep"}
          /\ i > 1 => (trainLog[i - 1].op \in {"uploadSource", "uploadInputs", "create"}
                          => trainLog[i - 1].status = "")
    /\ (trainPc \in {"describe", "sleep"} \/ Count(trainLog, "describe") > 0)
          => Succeeded("create") # {}
    /\ \A i \in DOMAIN trainLog :
          (/\ trainLog[i].op \in {"uploadSource", "uploadInputs", "create"}
           /\ trainLog[i].status # "")
            => /\ i = Len(trainLog)
               /\ trainPc = "done"
               /\ trainOutcome = Rejected(trainLog[i].status)
               /\ Count(trainLog, "describe") = 0

C29_Witness ==
    /\ Len(trainLog) = 3
    /\ trainLog[3] = Entry("create", "AccessDeniedException", 0)
    /\ trainOutcome = Rejected("AccessDeniedException")

\* C30: whenever the tracker reads a terminal status, Failed and Stopped
\* included, train resolves with metadata whose status is that status and
\* whose trainingJobName is the name sent in CreateTrainingJob.
C30_ResolvesOnEveryTerminalStatus ==
    \A i \in DOMAIN trainLog :
        (trainLog[i].op = "describe" /\ trainLog[i].status \in TerminalStatuses)
            => /\ trainOutcome = Resolved(Metadata(trainLog[i].status))
               /\ trainJob.returned # NoName
               /\ trainJob.returned = trainJob.submitted

C30_Witness ==
    /\ trainOutcome = Resolved(Metadata("Failed"))
    /\ trainJob.returned = <<"svc", "xgboost", "t2">>
    /\ Count(trainLog, "describe") = 2

----------------------------------------------------------------------------
(* Properties of the transforms and of the metrics callback (Spec). *)

\* C31: a successful invokeEndpoint call resolves to the assembled response
\* whose data is transformOutput(parsed body); the output transform is
\* applied once, never a second time to the assembled response.
C31_OutputTransformAppliedOnce ==
    outcome.kind = "resolved"
        => \E body \in Bodies :
              outcome.value = AssembledResponse(ApplyTransform(options.transformOutput, body))

\* C40: an attempt whose remote call succeeded is the last attempt of the
\* invocation and ends the retry sequence, whatever the metrics callback
\* does, and the error the caller receives is never the callback's.
C40_CallbackNeverChangesTheCourse ==
    /\ \A i \in DOMAIN attemptLog :
          attemptLog[i] = "ok" => /\ i = Len(attemptLog)
                                  /\ issued = i
                                  /\ pc = "done"
    /\ outcome.error # CallbackError

\* C32: the input transform is called exactly once per invokeEndpoint call,
\* before the first attempt; every remote call of the call carries the value
\* it returned; when it throws the call rejects with its error, no remote
\* call is issued and no retry is made.
C32_InputTransformedOnce ==
    /\ Len(transformed) = (IF pc = "idle" THEN 0 ELSE 1)
    /\ Len(sent) = issued
    /\ \A i \in DOMAIN sent : sent[i] = ApplyTransform(options.transformInput, Payload)
    /\ (pc # "idle" /\ options.transformInput = "throws")
          => /\ outcome = Rejected(TransformInputError)
             /\ issued = 0
             /\ retryCount = 0
             /\ sleeps = <<>>

C32_Witness ==
    /\ options.transformInput = "wrap"
    /\ Len(sent) = 3
    /\ sent[3] = <<"wrapped", "payload">>

\* C33: a call that has been made settles, even when the remote call never
\* responds: every attempt ends by its timeout at the latest, and at most
\* maxAttempts + 1 attempts and maxAttempts backoff sleeps are made.
C33_CallSettles ==
    /\ [](pc # "idle"
            => /\ issued <= NumField(effectiveConfig.retry, "maxAttempts") + 1
               /\ Len(sleeps) <= NumField(effectiveConfig.retry, "maxAttempts"))
    /\ (pc \in {"race", "sleep"} ~> (pc = "done" /\ outcome.kind # "pending"))

C33_Witness ==
    /\ attemptLog = <<TimeoutError, TimeoutError, TimeoutError>>
    /\ outstanding = {0, 1, 2}
    /\ outcome = Rejected(TimeoutError)

----------------------------------------------------------------------------
(* Termination of the job tracker (SpecTrainFair). *)

\* The describe calls that have returned or failed
Polled == {i \in DOMAIN trainLog : trainLog[i].op = "describe"}

\* The tracker has been started: CreateTrainingJob has succeeded
TrackerStarted == Succeeded("create") # {}

\* C34: the tracker has returned if and only if a describe call returned
\* Completed, Failed or Stopped, or failed: while every describe call returns
\* another status or none it polls again, however many polls were made; and
\* once the remote job is in a terminal status the tracker eventually returns.
C34_TrackerEndsOnlyOnTerminal ==
    /\ [](TrackerStarted
            => (trainPc = "done"
                <=> \E i \in Polled :
                       trainLog[i].status \in TerminalStatuses \cup TrainErrors))
    /\ ((/\ trainPc \in {"describe", "sleep"}
         /\ trainJob.remote \in TerminalStatuses
         /\ Count(trainLog, "describe") < MaxPolls)
            ~> trainPc = "done")

C34_Witness ==
    /\ Count(trainLog, "describe") = MaxPolls
    /\ \A i \in Polled : trainLog[i].status \in NonTerminalStatuses
    /\ \E i \in Polled : trainLog[i].status = "undefined"
    /\ trainPc = "sleep"
    /\ trainJob.remote = "Completed"

----------------------------------------------------------------------------
(* Termination, results and concurrency of a batch (SpecBatch). *)

BatchEnabled == Field(config.batch, "enabled") = "true"

\* The payload indexes sliced so far
Sliced == UNION {windows[w] : w \in DOMAIN windows}

\* C35: with a non-empty payload array and batch enabled, whatever numbers
\* maxBatchSize and concurrency are (0 included), the batch goes through
\* ceil(n / window size) windows and settles: every window takes at least one
\* payload, so there are never more windows than payloads, and a batch that
\* resolved has sliced every payload.
C35_SettlesAfterCeilWindows ==
    (NonEmptyArray /\ BatchEnabled /\ BatchCalled /\ WindowSize # Undefined)
        => /\ Len(windows) <= payloads.length
           /\ \A w \in DOMAIN windows : windows[w] # {}
           /\ batchOutcome.kind = "resolved" => Sliced = 1..payloads.length

\* The value invokeEndpoint resolves to for payload k
ResponseFor(k) ==
    ApplyTransform(options.transformOutput,
        AssembledResponse(ApplyTransform(options.transformOutput, BodyFor(k))))

\* C36: when batchInvokeEndpoint resolves, the result array is as long as the
\* payload array, result i is the response of the invocation made for payload
\* i, and every payload was invoked exactly once.
C36_ResultsInPayloadOrder ==
    (payloads.isArray /\ batchOutcome.kind = "resolved")
        => /\ Len(batchOutcome.value) = payloads.length
           /\ \A k \in DOMAIN batchOutcome.value : batchOutcome.value[k] = ResponseFor(k)
           /\ \A k \in 1..payloads.length :
                 /\ Cardinality({w \in DOMAIN windows : k \in windows[w]}) = 1
                 /\ calls[k].outcome = Resolved(ResponseFor(k))

\* C37: once the batch has rejected, no invocation of the batch issues another
\* remote call or calls the metrics callback again.
C37_NothingAfterRejection ==
    [][batchOutcome.kind = "rejected"
          => \A k \in DOMAIN calls :
                /\ calls'[k].issued = calls[k].issued
                /\ calls'[k].events = calls[k].events]_vars

\* The remote calls of the batch that have not settled
OutstandingCalls ==
    UNION {{<<k, a>> : a \in calls[k].outstanding} : k \in DOMAIN calls}

\* C38: during a batch the remote calls outstanding at any moment are never
\* more than maxBatchSize x concurrency, attempts that ended by timeout and
\* were retried included.
C38_OutstandingWithinWindow ==
    (BatchEnabled /\ PositiveWindow) => Cardinality(OutstandingCalls) <= ClaimedWindowSize

----------------------------------------------------------------------------
(* Two interleaved deploy calls (SpecDeploy). *)

\* C39: of two deploy calls whose commands interleave, at most one sends
\* createEndpoint, and neither fails because the endpoint it was told is
\* absent exists by the time it creates it.
C39_NoStaleProbe ==
    /\ Cardinality({c \in Callers : SentCount(deploys[c], "createEndpoint") > 0}) <= 1
    /\ \A c \in Callers : deploys[c].outcome.error # AlreadyExists

====
